---------------------------- MODULE Spec2Model ----------------------------
(***************************************************************************)
(* A model of the read-only SQLite file reader (src/src): the varint       *)
(* codec, the record decoder, the cell decoders, the page reader and the   *)
(* table and index B-tree walkers.                                         *)
(*                                                                         *)
(* Data representation                                                     *)
(*   - a byte is a number in 0..255, a buffer (&[u8]) a sequence of bytes; *)
(*     Rust's 0-based offset o is the sequence index o + 1;                *)
(*   - a 64-bit word (u64 or i64) is the sequence of its 8 bytes, most     *)
(*     significant first, so that shifts and sign extension keep their     *)
(*     width; `as u64` and `as i64` are the identity on these bytes;       *)
(*   - a String is the sequence of the code points of its characters;     *)
(*   - a Result is a record with st in {"Ok", "Err", "Panic"}.             *)
(***************************************************************************)
EXTENDS Integers, Sequences, FiniteSets, TLC

VARIABLES
    data,       \* the byte buffer handed to a pure decoder (&[u8])
    file,       \* Database.file: the bytes of the database file
    page_size,  \* Database.page_size
    cursor,     \* the position of Database.file, as seek and read_exact leave it
    overflow_checks, \* whether the build panics on arithmetic overflow (debug)
    fx,         \* the logical content the file was laid out from
    app,        \* the App of the terminal interface, once App::new has built it
    call,       \* the operation that ran last, with its arguments
    ret         \* what that operation returned

vars == <<data, file, page_size, cursor, overflow_checks, fx, app, call, ret>>

----------------------------------------------------------------------------
(* Bounds of the model *)

\* longest run of continuation bytes (high bit set) in a varint input
MaxContinuation == 9
\* largest offset handed to read_varint
MaxOffset == 1
\* most columns of a generated record
MaxCols == 2

----------------------------------------------------------------------------
(* Bytes, words and results *)

Byte == 0..255

Min(a, b) == IF a < b THEN a ELSE b
Max(a, b) == IF a > b THEN a ELSE b

\* the empty slice data[lo..hi) of Rust, 0-based, for lo <= hi <= Len(data)
Slice(s, lo, hi) == SubSeq(s, lo + 1, hi)

RECURSIVE SeqsUpTo(_, _)
\* all sequences over S of length 0..n
SeqsUpTo(S, n) ==
    IF n = 0 THEN {<<>>}
    ELSE LET shorter == SeqsUpTo(S, n - 1)
         IN  shorter \cup {Append(s, x) : s \in {t \in shorter : Len(t) = n - 1}, x \in S}

ZeroWord == <<0, 0, 0, 0, 0, 0, 0, 0>>

Ok(v) == [st |-> "Ok", val |-> v]
Err == [st |-> "Err"]
Panic == [st |-> "Panic"]
IsOk(r) == r.st = "Ok"

\* the `?` operator: the value of an Ok, or the early return of the failure
Try(r, Continue(_)) == IF r.st # "Ok" THEN r ELSE Continue(r.val)

NoCall == [op |-> "none"]
\* no App has been built
NoApp == [mode |-> "none"]
NoRet == [st |-> "none"]

----------------------------------------------------------------------------
(* src/src/database/varint.rs *)

\* (value << 7) | low7 on a u64: the bits shifted out at the top are lost
Shl7Or(w, low7) ==
    << ((w[1] * 128) % 256) + (w[2] \div 2), ((w[2] * 128) % 256) + (w[3] \div 2),
       ((w[3] * 128) % 256) + (w[4] \div 2), ((w[4] * 128) % 256) + (w[5] \div 2),
       ((w[5] * 128) % 256) + (w[6] \div 2), ((w[6] * 128) % 256) + (w[7] \div 2),
       ((w[7] * 128) % 256) + (w[8] \div 2), ((w[8] * 128) % 256) + low7 >>

\* (value << 8) | byte on a u64
Shl8Or(w, byte) == <<w[2], w[3], w[4], w[5], w[6], w[7], w[8], byte>>

RECURSIVE read_varint_loop(_, _, _, _, _)
\* the body of `for i in 0..9` with the loop variables value and bytes_read
read_varint_loop(buf, offset, i, value, bytes_read) ==
    IF offset + bytes_read >= Len(buf) THEN Err
    ELSE LET byte == buf[offset + bytes_read + 1]
         IN  IF i = 8
             THEN Ok([value |-> Shl8Or(value, byte), bytes_read |-> bytes_read + 1])
             ELSE LET v == Shl7Or(value, byte % 128)
                  IN  IF byte \div 128 = 0
                      THEN Ok([value |-> v, bytes_read |-> bytes_read + 1])
                      ELSE read_varint_loop(buf, offset, i + 1, v, bytes_read + 1)

read_varint_bug_shift8(buf, offset) ==
    LET RECURSIVE loop(_, _, _)
        loop(i, value, bytes_read) ==
            IF offset + bytes_read >= Len(buf) THEN Err
            ELSE LET byte == buf[offset + bytes_read + 1]
                 IN  IF i = 8
                     THEN Ok([value |-> Shl7Or(value, byte % 128),
                              bytes_read |-> bytes_read + 1])
                     ELSE LET v == Shl7Or(value, byte % 128)
                          IN  IF byte \div 128 = 0
                              THEN Ok([value |-> v, bytes_read |-> bytes_read + 1])
                              ELSE loop(i + 1, v, bytes_read + 1)
    IN  loop(0, ZeroWord, 0)

read_varint_bug_nomask(buf, offset) ==
    LET \* (value << 7) | byte, the continuation bit not masked off
        ShlOrByte(w, byte) ==
            LET s == Shl7Or(w, 0)
            IN  <<s[1], s[2], s[3], s[4], s[5], s[6], s[7],
                  (Max(w[8] % 2, byte \div 128) * 128) + (byte % 128)>>
        RECURSIVE loop(_, _, _)
        loop(i, value, bytes_read) ==
            IF offset + bytes_read >= Len(buf) THEN Err
            ELSE LET byte == buf[offset + bytes_read + 1]
                 IN  IF i = 8
                     THEN Ok([value |-> Shl8Or(value, byte),
                              bytes_read |-> bytes_read + 1])
                     ELSE LET v == ShlOrByte(value, byte)
                          IN  IF byte \div 128 = 0
                              THEN Ok([value |-> v, bytes_read |-> bytes_read + 1])
                              ELSE loop(i + 1, v, bytes_read + 1)
    IN  loop(0, ZeroWord, 0)

read_varint(buf, offset) == read_varint_loop(buf, offset, 0, ZeroWord, 0)

----------------------------------------------------------------------------
(* Words as offsets *)

\* larger than every buffer of the model; stands for every usize >= 2^30
Huge == 1024 * 1024 * 1024

\* `w as usize` on a 64-bit target, every value from 2^30 on read as Huge
AsUsize(w) ==
    IF w[1] = 0 /\ w[2] = 0 /\ w[3] = 0 /\ w[4] = 0 /\ w[5] < 64
    THEN ((w[5] * 256 + w[6]) * 256 + w[7]) * 256 + w[8]
    ELSE Huge

\* the word of a number below 2^31
NatToWord(n) ==
    <<0, 0, 0, 0, n \div 16777216, (n \div 65536) % 256, (n \div 256) % 256, n % 256>>

----------------------------------------------------------------------------
(* src/src/record.rs *)

RV_Null == [tag |-> "Null"]
RV_Int(w) == [tag |-> "Int", v |-> w]
RV_Float(bits) == [tag |-> "Float", bits |-> bits]
RV_Zero == [tag |-> "Zero"]
RV_One == [tag |-> "One"]
RV_Blob(bytes) == [tag |-> "Blob", bytes |-> bytes]
RV_Text(str) == [tag |-> "Text", s |-> str]
RV_Reserved(code) == [tag |-> "Reserved", code |-> code]

ReplacementChar == 65533

RECURSIVE from_utf8_lossy(_)
\* String::from_utf8_lossy for buffers of 1- and 2-byte sequences: a byte that
\* starts no such sequence becomes U+FFFD
from_utf8_lossy(bytes) ==
    IF bytes = <<>> THEN <<>>
    ELSE LET b == bytes[1]
         IN  IF b < 128 THEN <<b>> \o from_utf8_lossy(Tail(bytes))
             ELSE IF /\ b \in 194..223
                     /\ Len(bytes) >= 2
                     /\ bytes[2] \in 128..191
             THEN <<(b - 192) * 64 + (bytes[2] - 128)>>
                  \o from_utf8_lossy(Tail(Tail(bytes)))
             ELSE <<ReplacementChar>> \o from_utf8_lossy(Tail(bytes))

Zeros8 == <<0, 0, 0, 0, 0, 0, 0, 0>>
Ones8 == <<255, 255, 255, 255, 255, 255, 255, 255>>

read_int_bug_no_sign(buf, offset, size) ==
    IF offset + size > Len(buf) THEN Err
    ELSE Ok([value |-> RV_Int(SubSeq(Zeros8, 1, 8 - size) \o Slice(buf, offset, offset + size)),
             bytes_read |-> size])

read_int(buf, offset, size) ==
    IF offset + size > Len(buf) THEN Err
    ELSE LET bytes == Slice(buf, offset, offset + size)
             fill == IF bytes # <<>> /\ bytes[1] >= 128 THEN Ones8 ELSE Zeros8
         IN  Ok([value |-> RV_Int(SubSeq(fill, 1, 8 - size) \o bytes), bytes_read |-> size])

from_type_and_data(col_type, buf, offset) ==
    LET n == AsUsize(col_type)
    IN  CASE n = 0 -> Ok([value |-> RV_Null, bytes_read |-> 0])
          [] n = 1 -> read_int(buf, offset, 1)
          [] n = 2 -> read_int(buf, offset, 2)
          [] n = 3 -> read_int(buf, offset, 3)
          [] n = 4 -> read_int(buf, offset, 4)
          [] n = 5 -> read_int(buf, offset, 6)
          [] n = 6 -> read_int(buf, offset, 8)
          [] n = 7 ->
                IF offset + 8 > Len(buf) THEN Err
                ELSE Ok([value |-> RV_Float(Slice(buf, offset, offset + 8)), bytes_read |-> 8])
          [] n = 8 -> Ok([value |-> RV_Zero, bytes_read |-> 0])
          [] n = 9 -> Ok([value |-> RV_One, bytes_read |-> 0])
          [] n \in {10, 11} -> Ok([value |-> RV_Reserved(col_type), bytes_read |-> 0])
          [] n >= 12 /\ col_type[8] % 2 = 0 ->
                LET blob_len == (n - 12) \div 2
                IN  IF offset + blob_len > Len(buf) THEN Err
                    ELSE Ok([value |-> RV_Blob(Slice(buf, offset, offset + blob_len)),
                             bytes_read |-> blob_len])
          [] n >= 13 /\ col_type[8] % 2 = 1 ->
                LET text_len == (n - 13) \div 2
                IN  IF offset + text_len > Len(buf) THEN Err
                    ELSE Ok([value |-> RV_Text(from_utf8_lossy(Slice(buf, offset, offset + text_len))),
                             bytes_read |-> text_len])
          [] OTHER -> Err

\* the loop variables of `while pos < header_size as usize`: pos and
\* column_types, whether the loop was left, and the failure it was left with
HeaderLoopState(done, failure, pos, column_types) ==
    [done |-> done, failure |-> failure, pos |-> pos, column_types |-> column_types]

\* the body of the loop for the varint read at pos
RecordHeader_push(s, r) ==
    IF r.st # "Ok" THEN HeaderLoopState(TRUE, r, s.pos, s.column_types)
    ELSE HeaderLoopState(FALSE, NoRet, s.pos + r.val.bytes_read,
                         Append(s.column_types, r.val.value))

\* one test of the loop condition and, when it holds, one pass
RecordHeader_pass(buf, header_size, s) ==
    IF s.done THEN s
    ELSE IF s.pos < AsUsize(header_size)
    THEN RecordHeader_push(s, read_varint(buf, s.pos))
    ELSE HeaderLoopState(TRUE, NoRet, s.pos, s.column_types)

RECURSIVE RecordHeader_loop(_, _, _, _)
\* `while pos < header_size as usize`: the state after at most `passes`
\* passes from s.  The passes are halved and the state after the first half
\* is a value before the second half starts, so that a header of many serial
\* types is not a nesting as deep as it is long.
RecordHeader_loop(buf, header_size, s, passes) ==
    IF passes <= 1 THEN RecordHeader_pass(buf, header_size, s)
    ELSE CHOOSE after \in
             {RecordHeader_loop(buf, header_size, half, passes - passes \div 2) :
                  half \in {RecordHeader_loop(buf, header_size, s, passes \div 2)}} :
             TRUE

\* what from_bytes returns when the loop is left
RecordHeader_result(header_size, s) ==
    IF s.failure # NoRet THEN s.failure
    ELSE Ok([size |-> header_size, column_types |-> s.column_types])

\* every pass but the last reads at least one byte of buf inside the header,
\* so the loop is left within min(header_size, len) + 1 passes
RecordHeader_from_bytes(buf) ==
    Try(read_varint(buf, 0),
        LAMBDA r :
            RecordHeader_result(
                r.value,
                RecordHeader_loop(buf, r.value,
                                  HeaderLoopState(FALSE, NoRet, r.bytes_read, <<>>),
                                  Min(AsUsize(r.value), Len(buf)) + 1)))

RECURSIVE Record_body_loop(_, _, _, _, _)
\* `for &col_type in &header.column_types` with the loop variables body and
\* data_offset
Record_body_loop(buf, header, i, body, data_offset) ==
    IF i > Len(header.column_types) THEN Ok([header |-> header, body |-> body])
    ELSE Try(from_type_and_data(header.column_types[i], buf, data_offset),
             LAMBDA r : Record_body_loop(buf, header, i + 1, Append(body, r.value),
                                         data_offset + r.bytes_read))

Record_from_bytes_bug_no_advance(buf) ==
    LET h == RecordHeader_from_bytes(buf)
        RECURSIVE loop(_, _)
        loop(i, body) ==
            IF i > Len(h.val.column_types) THEN Ok([header |-> h.val, body |-> body])
            ELSE LET r == from_type_and_data(h.val.column_types[i], buf,
                                             AsUsize(h.val.size))
                 IN  IF r.st # "Ok" THEN Err ELSE loop(i + 1, Append(body, r.val.value))
    IN  IF h.st # "Ok" THEN Err ELSE loop(1, <<>>)

Record_from_bytes(buf) ==
    Try(RecordHeader_from_bytes(buf),
        LAMBDA header : Record_body_loop(buf, header, 1, <<>>, AsUsize(header.size)))

----------------------------------------------------------------------------
(* src/src/lib.rs and src/src/database.rs: the page reader *)

DB_HEADER_SIZE == 100
BTREE_HEADER_SIZE == 8

INTERIOR_INDEX_PAGE == 2
INTERIOR_TABLE_PAGE == 5
LEAF_INDEX_PAGE == 10
LEAF_TABLE_PAGE == 13

\* the recursion ran deeper than the stack allows: the process aborts
StackOverflow == [st |-> "StackOverflow"]

None == [some |-> FALSE]
Some(v) == [some |-> TRUE, v |-> v]

\* u16::from_be_bytes([b1, b2]) as usize
U16(b1, b2) == b1 * 256 + b2

\* u32::from_be_bytes([b1, b2, b3, b4]) as usize, every value from 2^30 on
\* read as Huge
U32(b1, b2, b3, b4) ==
    IF b1 >= 64 THEN Huge ELSE ((b1 * 256 + b2) * 256 + b3) * 256 + b4

read_page_size(f) ==
    IF Len(f) < DB_HEADER_SIZE THEN Err ELSE Ok(U16(f[17], f[18]))

Database_new(f) ==
    Try(read_page_size(f), LAMBDA size : Ok([file |-> f, page_size |-> size]))

\* where read_exact of len bytes at pos leaves the file: behind the bytes
\* read, or at the end of a file that ends before
position_after(pos, len) ==
    IF pos + len <= Len(file) THEN pos + len ELSE Max(pos, Len(file))

\* where read_page_data leaves the file: for page 0 the subtraction panics
\* or the seek to the wrapped offset fails, and with pages of no bytes the
\* wrapped offset is 0
position_after_page(page_number) ==
    IF page_number = 0
    THEN IF ~overflow_checks /\ page_size = 0 THEN 0 ELSE cursor
    ELSE position_after((page_number - 1) * page_size, page_size)

\* the position after a walk of several pages, which is not followed
NotTracked == -1

\* the pages the file holds in full
NumPages == IF page_size = 0 THEN 0 ELSE Len(file) \div page_size

\* read_page_data without the seek: the page is read from where the file
\* stands
read_page_data_bug_no_seek(page_number) ==
    IF cursor < 0 \/ cursor + page_size > Len(file) THEN Err
    ELSE Ok(SubSeq(file, cursor + 1, cursor + page_size))

\* (page_number - 1) * page_size underflows for page 0: a panic with overflow
\* checks, a wrapped offset without; read_exact fails when the file ends
\* before the page does
read_page_data(page_number) ==
    IF page_number = 0
    THEN IF overflow_checks THEN Panic
         ELSE IF page_size = 0 THEN Ok(<<>>) ELSE Err
    ELSE IF page_size = 0 THEN Ok(<<>>)
    ELSE IF page_number > NumPages THEN Err
    ELSE Ok(SubSeq(file, (page_number - 1) * page_size + 1, page_number * page_size))

get_dbheader_offset(page_number) == IF page_number = 1 THEN DB_HEADER_SIZE ELSE 0

get_cell_count(page_data, page_number) ==
    LET dbheader_offset == get_dbheader_offset(page_number)
    IN  IF dbheader_offset + 5 > Len(page_data) THEN Err
        ELSE Ok(U16(page_data[dbheader_offset + 4], page_data[dbheader_offset + 5]))

RECURSIVE pointer_array(_, _, _)
\* page_data[ptr_start..ptr_end].chunks_exact(2) as big-endian u16
pointer_array(page_data, ptr_start, ptr_end) ==
    IF ptr_start >= ptr_end THEN <<>>
    ELSE <<U16(page_data[ptr_start + 1], page_data[ptr_start + 2])>>
         \o pointer_array(page_data, ptr_start + 2, ptr_end)

\* the cell_count pointers from ptr_start on
pointers_from(page_data, ptr_start, cell_count) ==
    IF ptr_start + cell_count * 2 > Len(page_data) THEN Err
    ELSE Ok(pointer_array(page_data, ptr_start, ptr_start + cell_count * 2))

\* the cell pointers behind a header of header_size bytes
cell_pointers(page_data, page_number, header_size) ==
    Try(get_cell_count(page_data, page_number),
        LAMBDA cell_count :
            pointers_from(page_data, get_dbheader_offset(page_number) + header_size,
                          cell_count))

get_cell_offsets(page_data, page_number) ==
    cell_pointers(page_data, page_number, BTREE_HEADER_SIZE)

read_page_number_from_cell(page_data, offset) ==
    IF offset + 4 > Len(page_data) THEN Err
    ELSE Ok(U32(page_data[offset + 1], page_data[offset + 2],
                page_data[offset + 3], page_data[offset + 4]))

read_rightmost_page(page_data, dbheader_offset) ==
    IF dbheader_offset + 12 > Len(page_data) THEN Err
    ELSE Ok(U32(page_data[dbheader_offset + 9], page_data[dbheader_offset + 10],
                page_data[dbheader_offset + 11], page_data[dbheader_offset + 12]))

----------------------------------------------------------------------------
(* src/src/database/cell.rs *)

\* the record of a cell whose two varints end at pos:
\* &data[pos..pos + record_size as usize] panics when the end lies behind the
\* buffer (or the sum overflows)
Cell_record(buf, pos, record_size, row_id) ==
    IF pos + AsUsize(record_size) > Len(buf) THEN Panic
    ELSE Try(Record_from_bytes(Slice(buf, pos, pos + AsUsize(record_size))),
             LAMBDA record :
                 Ok([record_size |-> record_size, row_id |-> row_id, record |-> record]))

Cell_from_bytes(buf, offset) ==
    Try(read_varint(buf, offset),
        LAMBDA r1 :
            Try(read_varint(buf, offset + r1.bytes_read),
                LAMBDA r2 :
                    Cell_record(buf, offset + r1.bytes_read + r2.bytes_read,
                                r1.value, r2.value)))

RECURSIVE read_cells(_, _, _, _)
\* `for cell_offset in cell_offsets { cells.push(Cell::from_bytes(..)?) }`
read_cells(page_data, cell_offsets, i, cells) ==
    IF i > Len(cell_offsets) THEN Ok(cells)
    ELSE Try(Cell_from_bytes(page_data, cell_offsets[i]),
             LAMBDA cell : read_cells(page_data, cell_offsets, i + 1, Append(cells, cell)))

read_page(page_number) ==
    Try(read_page_data(page_number),
        LAMBDA page_data :
            Try(get_cell_offsets(page_data, page_number),
                LAMBDA cell_offsets : read_cells(page_data, cell_offsets, 1, <<>>)))

----------------------------------------------------------------------------
(* src/src/database.rs: the table B-tree walker *)

\* `if let Ok(v) = r { vec.push(v) }`
push_if_ok(vec, r) == IF r.st = "Ok" THEN Append(vec, r.val) ELSE vec

\* `if let Some(v) = o { vec.push(v) }`
push_if_some(vec, o) == IF o.some THEN Append(vec, o.v) ELSE vec

RECURSIVE child_page_numbers_loop(_, _, _, _)
\* `for cell_offset in cell_offsets.iter()`: a pointer that cannot be read is
\* left out
child_page_numbers_loop(page_data, cell_offsets, i, child_pages) ==
    IF i > Len(cell_offsets) THEN child_pages
    ELSE child_page_numbers_loop(
             page_data, cell_offsets, i + 1,
             push_if_ok(child_pages,
                        read_page_number_from_cell(page_data, cell_offsets[i])))

get_child_page_numbers_bug_right_first(page_data, page_num) ==
    Try(cell_pointers(page_data, page_num, 12),
        LAMBDA cell_offsets :
            Try(read_rightmost_page(page_data, get_dbheader_offset(page_num)),
                LAMBDA rightmost_page :
                    Ok(<<rightmost_page>>
                       \o child_page_numbers_loop(page_data, cell_offsets, 1, <<>>))))

get_child_page_numbers_bug_no_rightmost(page_data, page_num) ==
    Try(cell_pointers(page_data, page_num, 12),
        LAMBDA cell_offsets :
            Ok(child_page_numbers_loop(page_data, cell_offsets, 1, <<>>)))

get_child_page_numbers(page_data, page_num) ==
    Try(cell_pointers(page_data, page_num, 12),
        LAMBDA cell_offsets :
            Try(read_rightmost_page(page_data, get_dbheader_offset(page_num)),
                LAMBDA rightmost_page :
                    Ok(Append(child_page_numbers_loop(page_data, cell_offsets, 1, <<>>),
                              rightmost_page))))

RECURSIVE collect_all_table_cells_at(_, _)
RECURSIVE collect_children(_, _, _, _)

\* `for child_page in child_pages { all_cells.append(&mut collect(child)?) }`
collect_children(child_pages, i, all_cells, depth) ==
    IF i > Len(child_pages) THEN Ok(all_cells)
    ELSE Try(collect_all_table_cells_at(child_pages[i], depth),
             LAMBDA child_cells :
                 collect_children(child_pages, i + 1, all_cells \o child_cells, depth))

\* the match on the page type
collect_from_page(page_data, page_num, depth) ==
    LET dbheader_offset == get_dbheader_offset(page_num)
    IN  IF dbheader_offset >= Len(page_data) THEN Err
        ELSE IF page_data[dbheader_offset + 1] = LEAF_TABLE_PAGE
        THEN Try(get_cell_offsets(page_data, page_num),
                 LAMBDA cell_offsets : read_cells(page_data, cell_offsets, 1, <<>>))
        ELSE IF page_data[dbheader_offset + 1] = INTERIOR_TABLE_PAGE
        THEN Try(get_child_page_numbers(page_data, page_num),
                 LAMBDA child_pages : collect_children(child_pages, 1, <<>>, depth + 1))
        ELSE Err

\* collect_all_table_cells as the depth-th nested call; a chain of calls
\* longer than the file has pages repeats a page and never returns
collect_all_table_cells_at(page_num, depth) ==
    IF depth > NumPages + 1 THEN StackOverflow
    ELSE Try(read_page_data(page_num),
             LAMBDA page_data : collect_from_page(page_data, page_num, depth))

collect_all_table_cells(page_num) == collect_all_table_cells_at(page_num, 1)

RECURSIVE search_leaf_cells(_, _, _, _)
\* `for cell_offset in cell_offsets { let cell = Cell::from_bytes(..)?; .. }`
search_leaf_cells(page_data, cell_offsets, i, target_row_id) ==
    IF i > Len(cell_offsets) THEN Ok(None)
    ELSE Try(Cell_from_bytes(page_data, cell_offsets[i]),
             LAMBDA cell :
                 IF cell.row_id = target_row_id THEN Ok(Some(cell))
                 ELSE search_leaf_cells(page_data, cell_offsets, i + 1, target_row_id))

RECURSIVE search_table_for_row_id_at(_, _, _)
RECURSIVE search_children(_, _, _, _)

search_children_bug_first_only(child_pages, i, target_row_id, depth) ==
    IF i > Len(child_pages) THEN Ok(None)
    ELSE search_table_for_row_id_at(child_pages[i], target_row_id, depth)

\* `for child_page in child_pages { if let Some(cell) = search(child)? .. }`
search_children(child_pages, i, target_row_id, depth) ==
    IF i > Len(child_pages) THEN Ok(None)
    ELSE Try(search_table_for_row_id_at(child_pages[i], target_row_id, depth),
             LAMBDA found :
                 IF found.some THEN Ok(found)
                 ELSE search_children(child_pages, i + 1, target_row_id, depth))

\* the match on the page type
search_in_page(page_data, page_num, target_row_id, depth) ==
    LET dbheader_offset == get_dbheader_offset(page_num)
    IN  IF dbheader_offset >= Len(page_data) THEN Err
        ELSE IF page_data[dbheader_offset + 1] = LEAF_TABLE_PAGE
        THEN Try(get_cell_offsets(page_data, page_num),
                 LAMBDA cell_offsets :
                     search_leaf_cells(page_data, cell_offsets, 1, target_row_id))
        ELSE IF page_data[dbheader_offset + 1] = INTERIOR_TABLE_PAGE
        THEN Try(get_child_page_numbers(page_data, page_num),
                 LAMBDA child_pages :
                     search_children(child_pages, 1, target_row_id, depth + 1))
        ELSE Err

\* search_table_for_row_id as the depth-th nested call
search_table_for_row_id_at(page_num, target_row_id, depth) ==
    IF depth > NumPages + 1 THEN StackOverflow
    ELSE Try(read_page_data(page_num),
             LAMBDA page_data : search_in_page(page_data, page_num, target_row_id, depth))

search_table_for_row_id(page_num, target_row_id) ==
    search_table_for_row_id_at(page_num, target_row_id, 1)

RECURSIVE search_reads_at(_, _, _)
RECURSIVE search_reads_children(_, _, _, _)

\* the pages read for the children from the i-th on: the loop goes on to the
\* next child when the search below a child returned Ok(None)
search_reads_children(child_pages, i, target_row_id, depth) ==
    IF i > Len(child_pages) THEN <<>>
    ELSE search_reads_at(child_pages[i], target_row_id, depth)
         \o (IF search_table_for_row_id_at(child_pages[i], target_row_id, depth) = Ok(None)
             THEN search_reads_children(child_pages, i + 1, target_row_id, depth)
             ELSE <<>>)

\* the pages read below an interior page, given its child pages
search_reads_below(child_pages, target_row_id, depth) ==
    IF child_pages.st = "Ok"
    THEN search_reads_children(child_pages.val, 1, target_row_id, depth + 1)
    ELSE <<>>

\* the pages read after page_num, given its bytes
search_reads_after(page_data, page_num, target_row_id, depth) ==
    IF /\ page_data.st = "Ok"
       /\ get_dbheader_offset(page_num) < Len(page_data.val)
       /\ page_data.val[get_dbheader_offset(page_num) + 1] = INTERIOR_TABLE_PAGE
    THEN search_reads_below(get_child_page_numbers(page_data.val, page_num),
                            target_row_id, depth)
    ELSE <<>>

\* the page numbers that search_table_for_row_id, as the depth-th nested
\* call, and the calls below it pass to read_page_data, in the order of the
\* calls
search_reads_at(page_num, target_row_id, depth) ==
    IF depth > NumPages + 1 THEN <<>>
    ELSE <<page_num>>
         \o search_reads_after(read_page_data(page_num), page_num, target_row_id, depth)

search_reads(page_num, target_row_id) == search_reads_at(page_num, target_row_id, 1)

----------------------------------------------------------------------------
(* The str operations the reader uses, on sequences of code points *)

SetMin(S) == CHOOSE x \in S : \A y \in S : x <= y
SetMax(S) == CHOOSE x \in S : \A y \in S : x >= y

\* char::is_whitespace on the ASCII range
WhiteSpace == {9, 10, 11, 12, 13, 32}

RECURSIVE trim_start(_)
trim_start(s) ==
    IF s # <<>> /\ s[1] \in WhiteSpace THEN trim_start(Tail(s)) ELSE s

RECURSIVE trim_end(_)
trim_end(s) ==
    IF s # <<>> /\ s[Len(s)] \in WhiteSpace THEN trim_end(SubSeq(s, 1, Len(s) - 1)) ELSE s

trim(s) == trim_end(trim_start(s))

\* the 0-based positions at which pat occurs in s
occurrences(s, pat) ==
    {i \in 0..(Len(s) - Len(pat)) : SubSeq(s, i + 1, i + Len(pat)) = pat}

find(s, pat) ==
    IF occurrences(s, pat) = {} THEN None ELSE Some(SetMin(occurrences(s, pat)))

rfind(s, pat) ==
    IF occurrences(s, pat) = {} THEN None ELSE Some(SetMax(occurrences(s, pat)))

contains(s, pat) == occurrences(s, pat) # {}

RECURSIVE split(_, _)
\* s.split(c) for a char c
split(s, c) ==
    LET p == find(s, <<c>>)
    IN  IF ~p.some THEN <<s>>
        ELSE <<SubSeq(s, 1, p.v)>> \o split(SubSeq(s, p.v + 2, Len(s)), c)

RECURSIVE split_whitespace(_)
split_whitespace(s) ==
    LET t == trim_start(s)
        gaps == {i \in 1..Len(t) : t[i] \in WhiteSpace}
        n == IF gaps = {} THEN Len(t) + 1 ELSE SetMin(gaps)
    IN  IF t = <<>> THEN <<>>
        ELSE <<SubSeq(t, 1, n - 1)>> \o split_whitespace(SubSeq(t, n, Len(t)))

\* char::to_lowercase / to_ascii_lowercase on the ASCII range
lower(c) == IF c \in 65..90 THEN c + 32 ELSE c

RECURSIVE to_lowercase(_)
to_lowercase(s) ==
    IF s = <<>> THEN <<>> ELSE <<lower(s[1])>> \o to_lowercase(Tail(s))

eq_ignore_ascii_case(a, b) == to_lowercase(a) = to_lowercase(b)

RECURSIVE str_le(_, _)
\* a <= b of &str: lexicographic on the UTF-8 bytes, which is the order of the
\* code points
str_le(a, b) ==
    IF a = <<>> THEN TRUE
    ELSE IF b = <<>> THEN FALSE
    ELSE IF a[1] # b[1] THEN a[1] < b[1]
    ELSE str_le(Tail(a), Tail(b))

----------------------------------------------------------------------------
(* src/src/record.rs: RecordValue::to_display_string *)

RECURSIVE Div10(_, _, _, _)
\* quotient and remainder of a u64 by 10, one byte at a time
Div10(w, k, rem, q) ==
    IF k > 8 THEN [q |-> q, r |-> rem]
    ELSE Div10(w, k + 1, (rem * 256 + w[k]) % 10, Append(q, (rem * 256 + w[k]) \div 10))

RECURSIVE u64_to_string(_)
u64_to_string(w) ==
    LET d == Div10(w, 1, 0, <<>>)
    IN  IF d.q = ZeroWord THEN <<48 + d.r>> ELSE Append(u64_to_string(d.q), 48 + d.r)

RECURSIVE wrapping_neg_from(_, _, _)
\* 0 - w: the bytes inverted, plus one, from the last byte on
wrapping_neg_from(w, k, carry) ==
    IF k = 0 THEN <<>>
    ELSE Append(wrapping_neg_from(w, k - 1, ((255 - w[k]) + carry) \div 256),
                ((255 - w[k]) + carry) % 256)

wrapping_neg(w) == wrapping_neg_from(w, 8, 1)

i64_to_string(w) ==
    IF w[1] >= 128 THEN <<45>> \o u64_to_string(wrapping_neg(w)) ELSE u64_to_string(w)

\* f64's Display for the values with a short decimal form; every other value
\* prints digits the model does not compute: kept as the bits behind a mark
\* that is no character
f64_to_string(bits) ==
    LET tail == SubSeq(bits, 3, 8)
        zeros == <<0, 0, 0, 0, 0, 0>>
    IN  CASE bits = ZeroWord -> <<48>>
          [] bits = <<128, 0, 0, 0, 0, 0, 0, 0>> -> <<45, 48>>
          [] bits = <<63, 240, 0, 0, 0, 0, 0, 0>> -> <<49>>
          [] bits = <<63, 224, 0, 0, 0, 0, 0, 0>> -> <<48, 46, 53>>
          [] bits = <<63, 248, 0, 0, 0, 0, 0, 0>> -> <<49, 46, 53>>
          [] bits = <<127, 240, 0, 0, 0, 0, 0, 0>> -> <<105, 110, 102>>
          [] bits = <<255, 240, 0, 0, 0, 0, 0, 0>> -> <<45, 105, 110, 102>>
          [] /\ bits[1] \in {127, 255}
             /\ bits[2] >= 240
             /\ ~(bits[2] = 240 /\ tail = zeros) -> <<78, 97, 78>>
          [] OTHER -> <<-1>> \o bits

to_display_string(value) ==
    CASE value.tag = "Null" -> <<78, 85, 76, 76>>
      [] value.tag = "Int" -> i64_to_string(value.v)
      [] value.tag = "Float" -> f64_to_string(value.bits)
      [] value.tag = "Zero" -> <<48>>
      [] value.tag = "One" -> <<49>>
      [] value.tag = "Text" -> value.s
      [] value.tag = "Blob" ->
            <<60, 66, 76, 79, 66, 32>> \o u64_to_string(NatToWord(Len(value.bytes)))
            \o <<32, 98, 121, 116, 101, 115, 62>>
      [] value.tag = "Reserved" ->
            <<60, 82, 69, 83, 69, 82, 86, 69, 68, 32>> \o u64_to_string(value.code) \o <<62>>

----------------------------------------------------------------------------
(* src/src/record.rs: the catalog accessors; src/src/schema.rs *)

TableStr == <<116, 97, 98, 108, 101>>
IndexStr == <<105, 110, 100, 101, 120>>
PrimaryKeyStr == <<112, 114, 105, 109, 97, 114, 121, 32, 107, 101, 121>>

\* record.body.get(i) is Some(RecordValue::<tag>)
body_is(body, i, tag) == i < Len(body) /\ body[i + 1].tag = tag

get_table_name(record) ==
    IF /\ body_is(record.body, 0, "Text")
       /\ record.body[1].s = TableStr
       /\ body_is(record.body, 2, "Text")
    THEN Some(record.body[3].s)
    ELSE None

get_sql_schema(record) ==
    IF body_is(record.body, 4, "Text") THEN Some(record.body[5].s) ELSE None

get_page_number(record) ==
    IF body_is(record.body, 3, "Int") THEN Ok(AsUsize(record.body[4].v)) ELSE Err

\* push_column with the length of columns for the index
push_column_bug_position(columns, index, trimmed, words) ==
    IF words # <<>>
    THEN Append(columns,
                [name |-> words[1], index |-> Len(columns),
                 is_primary_key |-> contains(to_lowercase(trimmed), PrimaryKeyStr)])
    ELSE columns

\* the body of the loop over the column definitions: a part without a word
\* gives no column
push_column(columns, index, trimmed, words) ==
    IF words # <<>>
    THEN Append(columns,
                [name |-> words[1], index |-> index,
                 is_primary_key |-> contains(to_lowercase(trimmed), PrimaryKeyStr)])
    ELSE columns

RECURSIVE columns_loop(_, _, _)
\* `for (index, part) in column_parts.iter().enumerate()`
columns_loop(column_parts, i, columns) ==
    IF i > Len(column_parts) THEN columns
    ELSE columns_loop(column_parts, i + 1,
                      push_column(columns, i - 1, trim(column_parts[i]),
                                  split_whitespace(trim(column_parts[i]))))

\* the columns between the first `(` at start and the last `)` at end
columns_between(sql, start, end) ==
    IF ~start.some THEN Err
    ELSE IF ~end.some THEN Err
    ELSE IF start.v >= end.v THEN Err
    ELSE Ok(columns_loop(split(Slice(sql, start.v + 1, end.v), 44), 1, <<>>))

from_create_sql(sql) == columns_between(sql, find(sql, <<40>>), rfind(sql, <<41>>))

----------------------------------------------------------------------------
(* src/src/database.rs: tables by name *)

RECURSIVE find_cell_named(_, _, _)
\* `for cell in cells`: the first cell of a table of that name
find_cell_named(cells, i, table_name) ==
    IF i > Len(cells) THEN Err
    ELSE IF get_table_name(cells[i].record) = Some(table_name) THEN Ok(cells[i])
    ELSE find_cell_named(cells, i + 1, table_name)

find_table_info(table_name) ==
    Try(read_page(1), LAMBDA cells : find_cell_named(cells, 1, table_name))

RECURSIVE table_names_loop(_, _, _)
\* `for cell in cells { if let Some(table_name) = .. { tables.push(..) } }`
table_names_loop(cells, i, tables) ==
    IF i > Len(cells) THEN tables
    ELSE table_names_loop(cells, i + 1,
                          push_if_some(tables, get_table_name(cells[i].record)))

get_table_names ==
    Try(read_page(1), LAMBDA cells : Ok(table_names_loop(cells, 1, <<>>)))

\* `.ok_or_else(..)?` on the SQL text, then the schema's columns
columns_of_sql(sql) == IF ~sql.some THEN Err ELSE from_create_sql(sql.v)

get_col_names(table_name) ==
    Try(find_table_info(table_name),
        LAMBDA table_info : columns_of_sql(get_sql_schema(table_info.record)))

RECURSIVE row_values(_, _, _, _)
\* `for (i, column) in columns.iter().enumerate()`
row_values(cell, columns, i, row) ==
    IF i > Len(columns) THEN row
    ELSE row_values(cell, columns, i + 1,
                    Append(row,
                           IF columns[i].is_primary_key THEN RV_Int(cell.row_id)
                           ELSE IF i - 1 < Len(cell.record.body) THEN cell.record.body[i]
                           ELSE RV_Null))

\* create_table_row without the row id for the primary key
create_table_row_bug_no_alias(cell, columns) ==
    [row_id |-> cell.row_id,
     values |-> [i \in 1..Len(columns) |->
                    IF i <= Len(cell.record.body) THEN cell.record.body[i]
                    ELSE RV_Null]]

create_table_row(cell, columns) ==
    [row_id |-> cell.row_id, values |-> row_values(cell, columns, 1, <<>>)]

RECURSIVE table_rows_of(_, _, _, _)
\* `for cell in all_cells { rows.push(self.create_table_row(cell, &columns)) }`
table_rows_of(all_cells, columns, i, rows) ==
    IF i > Len(all_cells) THEN rows
    ELSE table_rows_of(all_cells, columns, i + 1,
                       Append(rows, create_table_row(all_cells[i], columns)))

get_table_rows(table_name) ==
    Try(find_table_info(table_name), LAMBDA table_info :
    Try(get_col_names(table_name), LAMBDA columns :
    Try(get_page_number(table_info.record), LAMBDA page_num :
    Try(collect_all_table_cells(page_num), LAMBDA all_cells :
        Ok([columns |-> columns,
            rows |-> table_rows_of(all_cells, columns, 1, <<>>)])))))

get_table_row_by_id(table_name, row_id) ==
    Try(find_table_info(table_name), LAMBDA table_info :
    Try(get_col_names(table_name), LAMBDA columns :
    Try(get_page_number(table_info.record), LAMBDA page_num :
    Try(search_table_for_row_id(page_num, row_id), LAMBDA cell :
        Ok(IF cell.some THEN Some(create_table_row(cell.v, columns)) ELSE None)))))

RECURSIVE rows_by_ids(_, _, _, _)
\* `for &row_id in row_ids { if let Some(row) = get_table_row_by_id(..)? .. }`
rows_by_ids(table_name, row_ids, i, rows) ==
    IF i > Len(row_ids) THEN Ok(rows)
    ELSE Try(get_table_row_by_id(table_name, row_ids[i]),
             LAMBDA row :
                 rows_by_ids(table_name, row_ids, i + 1, push_if_some(rows, row)))

get_table_rows_by_ids(table_name, row_ids) ==
    Try(get_col_names(table_name), LAMBDA columns :
    Try(rows_by_ids(table_name, row_ids, 1, <<>>), LAMBDA rows :
        Ok([columns |-> columns, rows |-> rows])))

count_table_rows(table_name) ==
    Try(find_table_info(table_name), LAMBDA table_info :
    Try(get_page_number(table_info.record), LAMBDA page_num :
    Try(read_page(page_num), LAMBDA rows : Ok(Len(rows)))))

----------------------------------------------------------------------------
(* src/src/database.rs: the schema objects and the index walker *)

SchemaObject_from_record(record) ==
    IF /\ Len(record.body) >= 4
       /\ body_is(record.body, 0, "Text")
       /\ body_is(record.body, 1, "Text")
       /\ body_is(record.body, 2, "Text")
       /\ body_is(record.body, 3, "Int")
    THEN Some([object_type |-> record.body[1].s,
               name |-> record.body[2].s,
               tbl_name |-> record.body[3].s,
               rootpage |-> AsUsize(record.body[4].v),
               sql |-> get_sql_schema(record)])
    ELSE None

RECURSIVE schema_objects_loop(_, _, _)
\* `for cell in cells { if let Some(schema_obj) = .. { objects.push(..) } }`
schema_objects_loop(cells, i, objects) ==
    IF i > Len(cells) THEN objects
    ELSE schema_objects_loop(cells, i + 1,
                             push_if_some(objects, SchemaObject_from_record(cells[i].record)))

get_all_schema_objects ==
    Try(read_page(1), LAMBDA cells : Ok(schema_objects_loop(cells, 1, <<>>)))

\* format!("on {} ({})", table_name, column_name)
on_clause(table_name, column_name) ==
    <<111, 110, 32>> \o table_name \o <<32, 40>> \o column_name \o <<41>>

RECURSIVE first_index_on(_, _, _, _)
\* `for obj in objects`: the first index of the table whose SQL names the
\* column
first_index_on(objects, i, table_name, column_name) ==
    IF i > Len(objects) THEN None
    ELSE IF /\ objects[i].object_type = IndexStr
            /\ objects[i].tbl_name = table_name
            /\ objects[i].sql.some
            /\ contains(to_lowercase(objects[i].sql.v), on_clause(table_name, column_name))
    THEN Some(objects[i])
    ELSE first_index_on(objects, i + 1, table_name, column_name)

find_index_for_column(table_name, column_name) ==
    Try(get_all_schema_objects,
        LAMBDA objects : Ok(first_index_on(objects, 1, table_name, column_name)))

\* pos + payload_size as usize leaves the 64 bits: a panic with overflow
\* checks, and without them an end before pos, on which the slice panics
wraps_usize(w, pos) ==
    /\ w[1] = 255 /\ w[2] = 255 /\ w[3] = 255 /\ w[4] = 255
    /\ pos > U32(255 - w[5], 255 - w[6], 255 - w[7], 255 - w[8])

\* key and row id of an index record
index_cell_of(body) ==
    IF Len(body) < 2 THEN Err
    ELSE IF body[2].tag # "Int" THEN Err
    ELSE Ok([key |-> IF body[1].tag = "Text" THEN body[1].s
                     ELSE to_display_string(body[1]),
             row_id |-> body[2].v])

\* the payload of an index cell whose size varint ends at pos
index_cell_payload(page_data, pos, payload_size) ==
    IF wraps_usize(payload_size, pos) THEN Panic
    ELSE IF pos + AsUsize(payload_size) > Len(page_data) THEN Err
    ELSE Try(Record_from_bytes(Slice(page_data, pos, pos + AsUsize(payload_size))),
             LAMBDA record : index_cell_of(record.body))

read_index_cell(page_data, offset) ==
    Try(read_varint(page_data, offset),
        LAMBDA r : index_cell_payload(page_data, offset + r.bytes_read, r.value))

\* `if let Ok(cell) = .. { if cell.key == search_value { row_ids.push(..) } }`
push_if_match(row_ids, cell, search_value) ==
    IF cell.st = "Ok" /\ cell.val.key = search_value
    THEN Append(row_ids, cell.val.row_id)
    ELSE row_ids

RECURSIVE index_leaf_loop(_, _, _, _, _)
RECURSIVE index_leaf_step(_, _, _, _, _, _)

\* the body of the loop for the cell read: a cell that cannot be read is
\* passed over
index_leaf_step(page_data, cell_offsets, i, search_value, row_ids, cell) ==
    IF cell.st = "Panic" THEN cell
    ELSE index_leaf_loop(page_data, cell_offsets, i + 1, search_value,
                         push_if_match(row_ids, cell, search_value))

\* `for cell_offset in cell_offsets.iter()`
index_leaf_loop(page_data, cell_offsets, i, search_value, row_ids) ==
    IF i > Len(cell_offsets) THEN Ok(row_ids)
    ELSE index_leaf_step(page_data, cell_offsets, i, search_value, row_ids,
                         read_index_cell(page_data, cell_offsets[i]))

search_index_leaf_page_stack(page_data, page_num, search_value, row_ids) ==
    Try(get_cell_offsets(page_data, page_num),
        LAMBDA cell_offsets :
            index_leaf_loop(page_data, cell_offsets, 1, search_value, row_ids))

RECURSIVE index_children_loop(_, _, _, _, _)
RECURSIVE index_children_step(_, _, _, _, _, _, _)

\* the body of the loop for the child pointer and the cell read
index_children_step(page_data, cell_offsets, i, search_value, child_pages, child_page, index_cell) ==
    IF child_page.st # "Ok" THEN child_page
    ELSE IF index_cell.st = "Panic" THEN index_cell
    ELSE IF index_cell.st = "Ok"
    THEN IF str_le(search_value, index_cell.val.key)
         THEN Ok([child_pages |-> Append(child_pages, child_page.val),
                  found_target_range |-> TRUE])
         ELSE index_children_loop(page_data, cell_offsets, i + 1, search_value,
                                  child_pages)
    ELSE index_children_loop(page_data, cell_offsets, i + 1, search_value,
                             Append(child_pages, child_page.val))

\* the first loop of get_index_child_pages_proper: the children pushed and
\* found_target_range
index_children_loop(page_data, cell_offsets, i, search_value, child_pages) ==
    IF i > Len(cell_offsets)
    THEN Ok([child_pages |-> child_pages, found_target_range |-> FALSE])
    ELSE IF cell_offsets[i] + 4 > Len(page_data)
    THEN index_children_loop(page_data, cell_offsets, i + 1, search_value, child_pages)
    ELSE index_children_step(page_data, cell_offsets, i, search_value, child_pages,
                             read_page_number_from_cell(page_data, cell_offsets[i]),
                             read_index_cell(page_data, cell_offsets[i]))

\* what follows the first loop: the rightmost child unless a cell bounded the
\* value, and all children when none was pushed
index_child_pages(page_data, cell_offsets, rightmost_page, first) ==
    IF first.found_target_range
    THEN IF first.child_pages = <<>>
         THEN Append(child_page_numbers_loop(page_data, cell_offsets, 1, <<>>),
                     rightmost_page)
         ELSE first.child_pages
    ELSE Append(first.child_pages, rightmost_page)

get_index_child_pages_proper(page_data, page_num, search_value) ==
    Try(get_cell_count(page_data, page_num), LAMBDA cell_count :
    Try(read_rightmost_page(page_data, get_dbheader_offset(page_num)),
        LAMBDA rightmost_page :
    Try(pointers_from(page_data, get_dbheader_offset(page_num) + 12, cell_count),
        LAMBDA cell_offsets :
    Try(index_children_loop(page_data, cell_offsets, 1, search_value, <<>>),
        LAMBDA first :
            Ok(index_child_pages(page_data, cell_offsets, rightmost_page, first))))))

RECURSIVE traverse_index_for_value(_, _, _, _)
RECURSIVE traverse_index_children(_, _, _, _, _)

\* `for child_page in child_pages { traverse_index_for_value(child, ..)? }`
traverse_index_children(child_pages, i, search_value, row_ids, depth) ==
    IF i > Len(child_pages) THEN Ok(row_ids)
    ELSE Try(traverse_index_for_value(child_pages[i], search_value, row_ids, depth),
             LAMBDA found :
                 traverse_index_children(child_pages, i + 1, search_value, found, depth))

\* the match on the page type
traverse_index_page(page_data, page_num, search_value, row_ids, depth) ==
    LET dbheader_offset == get_dbheader_offset(page_num)
    IN  IF dbheader_offset >= Len(page_data) THEN Err
        ELSE IF page_data[dbheader_offset + 1] = LEAF_INDEX_PAGE
        THEN search_index_leaf_page_stack(page_data, page_num, search_value, row_ids)
        ELSE IF page_data[dbheader_offset + 1] = INTERIOR_INDEX_PAGE
        THEN Try(get_index_child_pages_proper(page_data, page_num, search_value),
                 LAMBDA child_pages :
                     traverse_index_children(child_pages, 1, search_value, row_ids,
                                             depth + 1))
        ELSE Err

\* traverse_index_for_value as the depth-th nested call; the value is row_ids
\* after the call
traverse_index_for_value(page_num, search_value, row_ids, depth) ==
    IF depth > NumPages + 1 THEN StackOverflow
    ELSE Try(read_page_data(page_num),
             LAMBDA page_data :
                 traverse_index_page(page_data, page_num, search_value, row_ids, depth))

search_index(index, search_value) ==
    traverse_index_for_value(index.rootpage, search_value, <<>>, 1)

----------------------------------------------------------------------------
(* src/src/commands.rs: the WHERE filter and the rows a projection reads *)

\* `value[1..value.len()-1]` of a trimmed value: the slice 1..0 of a value
\* of one character is out of order
parse_value(value) ==
    LET v == trim(value)
        quoted(q) == v # <<>> /\ v[1] = q /\ v[Len(v)] = q
    IN  IF quoted(39) \/ quoted(34)
        THEN IF Len(v) < 2 THEN Panic ELSE Ok(SubSeq(v, 2, Len(v) - 1))
        ELSE Ok(v)

\* the condition for the operator found at pos, whose text has width bytes
condition_at(where_clause, pos, width, operator) ==
    Try(parse_value(trim(SubSeq(where_clause, pos + width + 1, Len(where_clause)))),
        LAMBDA value : Ok([column_name |-> trim(SubSeq(where_clause, 1, pos)),
                           operator |-> operator,
                           value |-> value]))

\* the clause already trimmed: ` = ` is looked for before ` != `
parse_trimmed(where_clause, equal, not_equal) ==
    IF equal.some THEN condition_at(where_clause, equal.v, 3, "Equal")
    ELSE IF not_equal.some THEN condition_at(where_clause, not_equal.v, 4, "NotEqual")
    ELSE Err

WhereCondition_parse(where_clause) ==
    parse_trimmed(trim(where_clause),
                  find(trim(where_clause), <<32, 61, 32>>),
                  find(trim(where_clause), <<32, 33, 61, 32>>))

\* matches with != true of every value
WhereCondition_matches_bug_not_equal_all(condition, record_value) ==
    CASE condition.operator = "Equal" -> to_display_string(record_value) = condition.value
      [] condition.operator = "NotEqual" -> TRUE
      [] OTHER -> FALSE

WhereCondition_matches(condition, record_value) ==
    CASE condition.operator = "Equal" -> to_display_string(record_value) = condition.value
      [] condition.operator = "NotEqual" -> to_display_string(record_value) # condition.value
      [] OTHER -> FALSE

RECURSIVE filter_rows(_, _, _, _, _)
\* `.filter(|row| ..)` on the column at column_index
filter_rows(rows, i, column_index, condition, kept) ==
    IF i > Len(rows) THEN kept
    ELSE filter_rows(rows, i + 1, column_index, condition,
                     IF /\ column_index < Len(rows[i].values)
                        /\ WhereCondition_matches(condition, rows[i].values[column_index + 1])
                     THEN Append(kept, rows[i])
                     ELSE kept)

\* the rows kept, given the positions of the columns of the condition's name
filter_on(table_data, condition, hits) ==
    IF hits = {} THEN Err
    ELSE Ok([columns |-> table_data.columns,
             rows |-> filter_rows(table_data.rows, 1, SetMin(hits) - 1, condition, <<>>)])

apply_where_filter(table_data, condition) ==
    filter_on(table_data, condition,
              {i \in 1..Len(table_data.columns) :
                   eq_ignore_ascii_case(table_data.columns[i].name, condition.column_name)})

\* get_table_rows(table_name) then apply_where_filter
scan_and_filter(table_name, condition) ==
    Try(get_table_rows(table_name),
        LAMBDA all_data : apply_where_filter(all_data, condition))

\* search_index then get_table_rows_by_ids
index_path(table_name, index, condition) ==
    Try(search_index(index, condition.value),
        LAMBDA row_ids : get_table_rows_by_ids(table_name, row_ids))

\* the rows for an equality, given what find_index_for_column returned
select_equal(table_name, condition, index) ==
    IF index.st = "Panic" THEN index
    ELSE IF index.st = "Ok" /\ index.val.some
    THEN index_path(table_name, index.val.v, condition)
    ELSE scan_and_filter(table_name, condition)

\* `let table_data = ..` of handle_select_columns
select_table_data(table_name, where_condition) ==
    IF where_condition.some
    THEN IF where_condition.v.operator = "Equal"
         THEN select_equal(table_name, where_condition.v,
                           find_index_for_column(table_name,
                                                 where_condition.v.column_name))
         ELSE scan_and_filter(table_name, where_condition.v)
    ELSE get_table_rows(table_name)

----------------------------------------------------------------------------
(* src/src/ui/tui.rs: the App of the terminal interface.  Its fields are
   kept but for the status line, the help flag, the schema text and the
   widget states other than the selected index of the table list; the
   timestamp of a history entry is left out, and a QueryResult is kept as
   whether it is the text of an error. *)

\* char::len_utf8
len_utf8(c) == IF c < 128 THEN 1 ELSE IF c < 2048 THEN 2 ELSE IF c < 65536 THEN 3 ELSE 4

RECURSIVE str_len(_)
\* str::len: the bytes of the UTF-8 encoding
str_len(s) == IF s = <<>> THEN 0 ELSE len_utf8(s[1]) + str_len(Tail(s))

\* the numbers of leading characters that take idx bytes: one number when idx
\* is a char boundary, none otherwise
chars_before(s, idx) == {k \in 0..Len(s) : str_len(SubSeq(s, 1, k)) = idx}

\* String::insert(idx, c): panics unless idx is a char boundary
String_insert(s, idx, c) ==
    IF chars_before(s, idx) = {} THEN Panic
    ELSE Ok(SubSeq(s, 1, SetMin(chars_before(s, idx))) \o <<c>>
            \o SubSeq(s, SetMin(chars_before(s, idx)) + 1, Len(s)))

\* String::remove(idx): panics unless a character starts at idx
String_remove(s, idx) ==
    IF chars_before(s, idx) = {} \/ idx >= str_len(s) THEN Panic
    ELSE Ok(SubSeq(s, 1, SetMin(chars_before(s, idx)))
            \o SubSeq(s, SetMin(chars_before(s, idx)) + 2, Len(s)))

starts_with(s, prefix) == Len(prefix) <= Len(s) /\ SubSeq(s, 1, Len(prefix)) = prefix

\* a QueryResult::Text: an Ok becomes the text of its value, an Err the text
\* "Error: .."
QueryResult_Text(is_error) == [tag |-> "Text", is_error |-> is_error]

\* execute_select_query_in_tui is not part of the model
NotModelled == [st |-> "NotModelled"]

get_num_tables ==
    Try(read_page_data(1), LAMBDA page_data :
        IF DB_HEADER_SIZE + 5 > Len(page_data) THEN Err
        ELSE Ok(U16(page_data[DB_HEADER_SIZE + 4], page_data[DB_HEADER_SIZE + 5])))

\* the COUNT branch
execute_count(parts) ==
    IF Len(parts) >= 4 /\ to_lowercase(parts[3]) = <<102, 114, 111, 109>>
    THEN Try(count_table_rows(parts[4]), LAMBDA count : Ok(QueryResult_Text(FALSE)))
    ELSE Err

execute_sql_query(query) ==
    IF starts_with(to_lowercase(trim(query)), <<115, 101, 108, 101, 99, 116, 32, 99, 111, 117, 110, 116, 40, 42, 41, 32, 102, 114, 111, 109, 32>>)
    THEN execute_count(split_whitespace(trim(query)))
    ELSE IF trim(query) = <<46, 116, 97, 98, 108, 101, 115>>
    THEN Try(get_table_names, LAMBDA tables : Ok(QueryResult_Text(FALSE)))
    ELSE IF trim(query) = <<46, 100, 98, 105, 110, 102, 111>>
    THEN Try(get_num_tables, LAMBDA num_tables : Ok(QueryResult_Text(FALSE)))
    ELSE IF starts_with(trim(query), <<46, 115, 99, 104, 101, 109, 97>>)
    THEN Try(get_all_schema_objects, LAMBDA objects : Ok(QueryResult_Text(FALSE)))
    ELSE IF starts_with(to_lowercase(trim(query)), <<115, 101, 108, 101, 99, 116>>)
    THEN NotModelled
    ELSE Err

\* the number of history entries kept
HistoryLimit == 50

\* the history with the newest entry evicted instead
keep_last_bug_evict_newest(query_history) ==
    IF Len(query_history) > HistoryLimit
    THEN SubSeq(query_history, 1, HistoryLimit)
    ELSE query_history

\* `if self.query_history.len() > 50 { self.query_history.remove(0); }`
keep_last(query_history) ==
    IF Len(query_history) > HistoryLimit THEN Tail(query_history) ELSE query_history

\* execute_query from `self.query_history.push(..)` on
push_history(a, query, result) ==
    Ok([a EXCEPT !.query_history = keep_last(Append(@, [query |-> query,
                                                        result |-> result])),
                 !.query_input = <<>>,
                 !.query_cursor_position = 0])

\* the match on the result of execute_sql_query
record_result(a, query, result) ==
    IF result.st = "Ok" THEN push_history(a, query, result.val)
    ELSE IF result.st = "Err" THEN push_history(a, query, QueryResult_Text(TRUE))
    ELSE result

execute_query(a) ==
    IF trim(a.query_input) = <<>> THEN Ok(a)
    ELSE record_result(a, trim(a.query_input), execute_sql_query(trim(a.query_input)))

add_char_to_query(a, c) ==
    Try(String_insert(a.query_input, a.query_cursor_position, c),
        LAMBDA inserted : Ok([a EXCEPT !.query_input = inserted,
                                       !.query_cursor_position = @ + 1]))

delete_char_from_query(a) ==
    IF a.query_cursor_position > 0
    THEN Try(String_remove(a.query_input, a.query_cursor_position - 1),
             LAMBDA removed : Ok([a EXCEPT !.query_input = removed,
                                           !.query_cursor_position = @ - 1]))
    ELSE Ok(a)

move_cursor_left(a) ==
    IF a.query_cursor_position > 0
    THEN [a EXCEPT !.query_cursor_position = @ - 1]
    ELSE a

move_cursor_right(a) ==
    IF a.query_cursor_position < str_len(a.query_input)
    THEN [a EXCEPT !.query_cursor_position = @ + 1]
    ELSE a

\* load_table_data: an error of get_table_rows goes to the status line and
\* leaves table_data and the scroll positions as they were
load_table_data(a) ==
    IF ~a.selected_table.some THEN Ok(a)
    ELSE IF get_table_rows(a.selected_table.v).st = "Ok"
    THEN Ok([a EXCEPT !.table_data = Some(get_table_rows(a.selected_table.v).val),
                      !.vertical_scroll = 0,
                      !.horizontal_scroll = 0])
    ELSE IF get_table_rows(a.selected_table.v).st = "Err" THEN Ok(a)
    ELSE get_table_rows(a.selected_table.v)

\* `self.table_list_state.selected().unwrap_or(0)`
selected_or_0(a) == IF a.selected.some THEN a.selected.v ELSE 0

\* select(Some(index)), selected_table = tables.get(index).cloned(), and
\* load_table_data
show_table(a, index) ==
    load_table_data([a EXCEPT !.selected = Some(index),
                              !.selected_table = IF index < Len(a.tables)
                                                 THEN Some(a.tables[index + 1])
                                                 ELSE None])

next_table(a) ==
    IF a.tables = <<>> THEN Ok(a)
    ELSE show_table(a, IF selected_or_0(a) >= Len(a.tables) - 1 THEN 0
                       ELSE selected_or_0(a) + 1)

previous_table(a) ==
    IF a.tables = <<>> THEN Ok(a)
    ELSE show_table(a, IF selected_or_0(a) = 0 THEN Len(a.tables) - 1
                       ELSE selected_or_0(a) - 1)

select_table(a) ==
    IF a.selected.some /\ a.selected.v < Len(a.tables)
    THEN load_table_data([a EXCEPT !.selected_table = Some(a.tables[a.selected.v + 1])])
    ELSE Ok(a)

\* `len.saturating_sub(1)`
saturating_sub(n, k) == IF n >= k THEN n - k ELSE 0

scroll_up(a) ==
    CASE a.mode = "Tables" ->
            IF a.vertical_scroll > 0 THEN [a EXCEPT !.vertical_scroll = @ - 1] ELSE a
      [] a.mode = "Query" ->
            IF a.query_scroll > 0 THEN [a EXCEPT !.query_scroll = @ - 1] ELSE a
      [] OTHER ->
            IF a.schema_scroll > 0 THEN [a EXCEPT !.schema_scroll = @ - 1] ELSE a

scroll_down(a) ==
    CASE a.mode = "Tables" ->
            IF /\ a.table_data.some
               /\ a.vertical_scroll < saturating_sub(Len(a.table_data.v.rows), 1)
            THEN [a EXCEPT !.vertical_scroll = @ + 1]
            ELSE a
      [] a.mode = "Query" -> [a EXCEPT !.query_scroll = @ + 1]
      [] OTHER -> [a EXCEPT !.schema_scroll = @ + 1]

scroll_left(a) ==
    IF a.horizontal_scroll > 0 THEN [a EXCEPT !.horizontal_scroll = @ - 1] ELSE a

scroll_right(a) ==
    IF a.mode = "Tables"
    THEN IF /\ a.table_data.some
            /\ a.horizontal_scroll < saturating_sub(Len(a.table_data.v.columns), 1)
         THEN [a EXCEPT !.horizontal_scroll = @ + 1]
         ELSE a
    ELSE [a EXCEPT !.horizontal_scroll = @ + 1]

scroll_table_down_fast(a) ==
    IF a.table_data.some
    THEN [a EXCEPT !.vertical_scroll =
                       Min(@ + 10, saturating_sub(Len(a.table_data.v.rows), 1))]
    ELSE a

scroll_table_up_fast(a) == [a EXCEPT !.vertical_scroll = saturating_sub(@, 10)]

scroll_to_table_top(a) == [a EXCEPT !.vertical_scroll = 0]

scroll_to_table_bottom(a) ==
    IF a.table_data.some
    THEN [a EXCEPT !.vertical_scroll = saturating_sub(Len(a.table_data.v.rows), 1)]
    ELSE a

\* the App that App::new builds before a table is selected
new_app(tables) ==
    [mode |-> "Tables", input_mode |-> "Normal", tables |-> tables,
     selected_table |-> None, table_data |-> None, selected |-> None,
     query_input |-> <<>>, query_history |-> <<>>,
     vertical_scroll |-> 0, horizontal_scroll |-> 0,
     query_cursor_position |-> 0, query_scroll |-> 0, schema_scroll |-> 0]

\* App::new on an open Database
App_new ==
    Try(get_table_names, LAMBDA tables :
        IF tables # <<>> THEN show_table(new_app(tables), 0) ELSE Ok(new_app(tables)))

\* a KeyCode: Char(c) carries a character, the other codes carry none
Char(c) == [code |-> "Char", c |-> c]
Key(code) == [code |-> code, c |-> 0]

\* handle_tables_key
handle_tables_key(a, key) ==
    CASE key \in {Key("Up"), Char(107)} -> previous_table(a)
      [] key \in {Key("Down"), Char(106)} -> next_table(a)
      [] key = Key("Enter") -> select_table(a)
      [] key = Char(114) -> load_table_data(a)
      [] key = Char(119) -> Ok(scroll_up(a))
      [] key = Char(115) -> Ok(scroll_down(a))
      [] key \in {Char(97), Key("Left")} -> Ok(scroll_left(a))
      [] key \in {Char(100), Key("Right")} -> Ok(scroll_right(a))
      [] key \in {Key("PageUp"), Char(87)} -> Ok(scroll_table_up_fast(a))
      [] key \in {Key("PageDown"), Char(83)} -> Ok(scroll_table_down_fast(a))
      [] key \in {Key("Home"), Char(103)} -> Ok(scroll_to_table_top(a))
      [] key \in {Key("End"), Char(71)} -> Ok(scroll_to_table_bottom(a))
      [] OTHER -> Ok(a)

\* the Enter of the editing mode: execute_query, then the normal mode
execute_and_leave(a) ==
    Try(execute_query(a), LAMBDA executed : Ok([executed EXCEPT !.input_mode = "Normal"]))

\* handle_query_key
handle_query_key(a, key) ==
    IF a.input_mode = "Normal"
    THEN CASE key = Key("Enter") -> Ok([a EXCEPT !.input_mode = "Editing"])
           [] key = Key("Up") -> Ok(scroll_up(a))
           [] key = Key("Down") -> Ok(scroll_down(a))
           [] OTHER -> Ok(a)
    ELSE CASE key = Key("Esc") -> Ok([a EXCEPT !.input_mode = "Normal"])
           [] key = Key("Enter") -> execute_and_leave(a)
           [] key = Key("Backspace") -> delete_char_from_query(a)
           [] key = Key("Left") -> Ok(move_cursor_left(a))
           [] key = Key("Right") -> Ok(move_cursor_right(a))
           [] key.code = "Char" -> add_char_to_query(a, key.c)
           [] OTHER -> Ok(a)

----------------------------------------------------------------------------
(* Inputs of the record specification: record payloads laid out as section 3
   of the specification describes them
     varint(header size) | varint* serial types | column bytes
   and payloads whose declared header size or body length is off. *)

RECURSIVE Concat(_)
\* the concatenation of a sequence of sequences
Concat(ss) == IF ss = <<>> THEN <<>> ELSE ss[1] \o Concat(Tail(ss))

RECURSIVE SeqMap(_, _)
\* <<Op(s[1]), ..., Op(s[n])>>, built eagerly
SeqMap(Op(_), s) == IF s = <<>> THEN <<>> ELSE <<Op(s[1])>> \o SeqMap(Op, Tail(s))

Col(type, enc, bytes) == [type |-> type, enc |-> enc, bytes |-> bytes]

\* a column: its serial type, the varint that states it, its body bytes
RecordColumns ==
    { Col(0, <<0>>, <<>>),
      Col(1, <<1>>, <<128>>),
      Col(1, <<128, 1>>, <<5>>),
      Col(2, <<2>>, <<1, 128>>),
      Col(3, <<3>>, <<128, 0, 1>>),
      Col(4, <<4>>, <<127, 255, 255, 254>>),
      Col(5, <<5>>, <<255, 0, 0, 0, 0, 1>>),
      Col(6, <<6>>, <<128, 0, 0, 0, 0, 0, 0, 3>>),
      Col(7, <<7>>, <<63, 240, 0, 0, 0, 0, 0, 0>>),
      Col(8, <<8>>, <<>>),
      Col(9, <<9>>, <<>>),
      Col(10, <<10>>, <<>>),
      Col(11, <<11>>, <<>>),
      Col(12, <<12>>, <<>>),
      Col(14, <<14>>, <<171>>),
      Col(13, <<13>>, <<>>),
      Col(17, <<17>>, <<97, 255>>) }

\* <<what the declared header size is off by, how many body bytes are cut,
\* the bytes that follow the body>>
Tampers == {<<0, 0, <<>> >>, <<-1, 0, <<>> >>, <<1, 0, <<>> >>, <<0, 1, <<>> >>,
            <<0, 0, <<7>> >>}

ColEnc(c) == c.enc
ColBytes(c) == c.bytes

RecordPayload(cols, delta, cut, trailing) ==
    LET types == Concat(SeqMap(ColEnc, cols))
        body == Concat(SeqMap(ColBytes, cols))
    IN  <<1 + Len(types) + delta>> \o types \o SubSeq(body, 1, Len(body) - cut)
        \o trailing

RecordFixtures ==
    {[kind |-> "record", cols |-> cols, delta |-> t[1], cut |-> t[2],
      trailing |-> t[3]] :
        cols \in SeqsUpTo(RecordColumns, MaxCols), t \in Tampers}

InitRecord ==
    /\ fx \in {f \in RecordFixtures : f.cut <= Len(Concat(SeqMap(ColBytes, f.cols)))}
    /\ data = RecordPayload(fx.cols, fx.delta, fx.cut, fx.trailing)
    /\ file = <<>>
    /\ page_size = 0
    /\ cursor = 0
    /\ overflow_checks = TRUE
    /\ app = NoApp
    /\ call = NoCall
    /\ ret = NoRet

RecordHeaderFromBytes ==
    /\ call' = [op |-> "RecordHeader::from_bytes"]
    /\ ret' = RecordHeader_from_bytes(data)
    /\ UNCHANGED <<app, data, file, page_size, cursor, overflow_checks, fx>>

RecordFromBytes ==
    /\ call' = [op |-> "Record::from_bytes"]
    /\ ret' = Record_from_bytes(data)
    /\ UNCHANGED <<app, data, file, page_size, cursor, overflow_checks, fx>>

FromTypeAndData ==
    \E col_type \in 1..6, offset \in {0, data[1]} :
        /\ call' = [op |-> "from_type_and_data", col_type |-> col_type, offset |-> offset]
        /\ ret' = from_type_and_data(NatToWord(col_type), data, offset)
        /\ UNCHANGED <<app, data, file, page_size, cursor, overflow_checks, fx>>

NextRecord == RecordHeaderFromBytes \/ RecordFromBytes \/ FromTypeAndData

SpecRecord == InitRecord /\ [][NextRecord]_vars

----------------------------------------------------------------------------
(* Inputs of the varint specification *)

\* continuation bytes: one with no payload bits and one with all of them
ContinuationBytes == {128, 255}

\* what follows a run of continuation bytes: nothing, a terminating byte, or
\* a terminating byte and one byte more
VarintTails == {<<>>, <<5>>, <<0>>, <<5, 255>>, <<127, 5>>}

VarintInputs ==
    {run \o tail : run \in SeqsUpTo(ContinuationBytes, MaxContinuation),
                   tail \in VarintTails}

InitVarint ==
    /\ data \in VarintInputs
    /\ file = <<>>
    /\ page_size = 0
    /\ cursor = 0
    /\ overflow_checks = TRUE
    /\ fx = [kind |-> "none"]
    /\ app = NoApp
    /\ call = NoCall
    /\ ret = NoRet

ReadVarint ==
    \E offset \in 0..MaxOffset :
        /\ call' = [op |-> "read_varint", offset |-> offset]
        /\ ret' = read_varint(data, offset)
        /\ UNCHANGED <<app, data, file, page_size, cursor, overflow_checks, fx>>

NextVarint == ReadVarint

SpecVarint == InitVarint /\ [][NextVarint]_vars

----------------------------------------------------------------------------
(* Bits, for stating what a varint denotes *)

Pow2(n) == IF n = 0 THEN 1 ELSE IF n = 1 THEN 2 ELSE IF n = 2 THEN 4
           ELSE IF n = 3 THEN 8 ELSE IF n = 4 THEN 16 ELSE IF n = 5 THEN 32
           ELSE IF n = 6 THEN 64 ELSE 128

\* the 8 bits of a byte, most significant first
ByteBits(b) == [k \in 1..8 |-> (b \div Pow2(8 - k)) % 2]

\* the 64 bits of a word, most significant first
WordBits(w) ==
    [k \in 1..64 |-> (w[((k - 1) \div 8) + 1] \div Pow2(7 - ((k - 1) % 8))) % 2]

RECURSIVE BitsToNat(_)
\* the number a sequence of at most 8 bits denotes
BitsToNat(bits) ==
    IF bits = <<>> THEN 0
    ELSE 2 * BitsToNat(SubSeq(bits, 1, Len(bits) - 1)) + bits[Len(bits)]

\* the bytes of buf from offset on
Avail(buf, offset) ==
    IF offset >= Len(buf) THEN <<>> ELSE SubSeq(buf, offset + 1, Len(buf))

\* the length of the varint that starts av: the place of the first byte
\* among the first 8 whose high bit is clear, 9 when all 8 have it set and a
\* 9th byte exists, 0 when av ends before
VarintLength(av) ==
    LET ends == {k \in 1..Min(8, Len(av)) : av[k] < 128}
    IN  IF ends # {} THEN CHOOSE k \in ends : \A j \in ends : k <= j
        ELSE IF Len(av) >= 9 THEN 9 ELSE 0

RECURSIVE VarintGroups(_, _)
\* the payload bits of the first n bytes of av: 7 of each of the first 8
\* bytes, all 8 of the 9th
VarintGroups(av, n) ==
    IF n = 0 THEN <<>>
    ELSE VarintGroups(av, n - 1)
         \o (IF n = 9 THEN ByteBits(av[n]) ELSE SubSeq(ByteBits(av[n]), 2, 8))

\* bits, zero-extended on the left to 64
ZeroExtend(bits) == [k \in 1..64 |-> IF k <= 64 - Len(bits) THEN 0
                                      ELSE bits[k - (64 - Len(bits))]]

\* the shortest varint that decodes to the word w
CanonVarint(w) ==
    LET bits == WordBits(w)
        Group(k) == BitsToNat(SubSeq(bits, 8 + 7 * (k - 1) + 1, 8 + 7 * k))
        nonzero == {k \in 1..8 : Group(k) # 0}
        first == IF nonzero = {} THEN 8
                 ELSE CHOOSE k \in nonzero : \A j \in nonzero : k <= j
    IN  IF \E k \in 1..8 : bits[k] = 1
        THEN [k \in 1..9 |->
                 IF k = 9 THEN BitsToNat(SubSeq(bits, 57, 64))
                 ELSE 128 + BitsToNat(SubSeq(bits, 7 * (k - 1) + 1, 7 * k))]
        ELSE [k \in 1..(9 - first) |->
                 (IF k + first - 1 < 8 THEN 128 ELSE 0) + Group(k + first - 1)]

----------------------------------------------------------------------------
(* Claims about read_varint *)

\* C6: read_varint returns (value, n), n in 1..9, where value is the 7 low
\* bits of each of the first up to 8 bytes, most significant group first, up
\* to the first byte whose high bit is clear, a 9th byte giving all 8 bits;
\* it returns an error exactly when the buffer ends before that byte.
C6_VarintDecodes ==
    call.op = "read_varint" =>
        LET av == Avail(data, call.offset)
            n == VarintLength(av)
        IN  IF n = 0 THEN ret = Err
            ELSE /\ ret.st = "Ok"
                 /\ ret.val.bytes_read = n
                 /\ n \in 1..9
                 /\ WordBits(ret.val.value) = ZeroExtend(VarintGroups(av, n))

\* a 9-byte varint whose last byte has its high bit set has been decoded
C6_Witness ==
    /\ call.op = "read_varint"
    /\ ret.st = "Ok"
    /\ ret.val.bytes_read = 9
    /\ data[call.offset + 9] = 255
    /\ ret.val.value[8] = 255

\* C7: when read_varint decodes (v, n), the shortest encoding of v has at most
\* n bytes and read_varint decodes it to v again.
C7_VarintRoundTrip ==
    (call.op = "read_varint" /\ ret.st = "Ok") =>
        LET c == CanonVarint(ret.val.value)
            again == read_varint(c, 0)
        IN  /\ Len(c) <= ret.val.bytes_read
            /\ again.st = "Ok"
            /\ again.val.value = ret.val.value

\* a varint longer than its shortest form has been decoded
C7_Witness ==
    /\ call.op = "read_varint"
    /\ ret.st = "Ok"
    /\ Len(CanonVarint(ret.val.value)) < ret.val.bytes_read
    /\ ret.val.value # ZeroWord

----------------------------------------------------------------------------
(* Claims about the record decoder *)

\* the bytes a serial type takes in the body (section 3 of the specification)
SerialWidth(t) ==
    CASE t \in {0, 8, 9, 10, 11} -> 0
      [] t \in {1, 2, 3, 4} -> t
      [] t = 5 -> 6
      [] t \in {6, 7} -> 8
      [] t >= 12 /\ t % 2 = 0 -> (t - 12) \div 2
      [] OTHER -> (t - 13) \div 2

\* the 64-bit two's-complement word of the big-endian integer in bytes
SignExtend(bytes) ==
    [k \in 1..8 |-> IF k > 8 - Len(bytes) THEN bytes[k - (8 - Len(bytes))]
                    ELSE IF bytes[1] >= 128 THEN 255 ELSE 0]

\* the value a serial type and its body bytes denote
SerialValue(t, bytes) ==
    CASE t = 0 -> RV_Null
      [] t \in 1..6 -> RV_Int(SignExtend(bytes))
      [] t = 7 -> RV_Float(bytes)
      [] t = 8 -> RV_Zero
      [] t = 9 -> RV_One
      [] t \in {10, 11} -> RV_Reserved(NatToWord(t))
      [] t >= 12 /\ t % 2 = 0 -> RV_Blob(bytes)
      [] OTHER -> RV_Text(from_utf8_lossy(bytes))

RECURSIVE SumWidths(_, _)
\* the body bytes the first n of the serial types take
SumWidths(types, n) ==
    IF n = 0 THEN 0 ELSE SumWidths(types, n - 1) + SerialWidth(types[n])

ColType(c) == c.type

WellFormedRecord ==
    fx.kind = "record" /\ fx.delta = 0 /\ fx.cut = 0 /\ fx.trailing = <<>>

\* C8: from_bytes on a well-formed payload returns one value per serial type,
\* in header order, each decoded from the bytes at the running offset that
\* starts at the declared header size and advances by the type's width;
\* serial types 10 and 11 are accepted as Reserved.
C8_RecordDecodes ==
    (call.op = "Record::from_bytes" /\ WellFormedRecord) =>
        LET types == SeqMap(ColType, fx.cols)
            start == data[1]
        IN  /\ ret.st = "Ok"
            /\ AsUsize(ret.val.header.size) = start
            /\ SeqMap(AsUsize, ret.val.header.column_types) = types
            /\ Len(ret.val.body) = Len(types)
            /\ \A i \in 1..Len(types) :
                  LET off == start + SumWidths(types, i - 1)
                  IN  ret.val.body[i] =
                          SerialValue(types[i],
                                      Slice(data, off, off + SerialWidth(types[i])))

\* a two-column record whose second value lies behind a first of non-zero
\* width has been decoded
C8_Witness ==
    /\ call.op = "Record::from_bytes"
    /\ WellFormedRecord
    /\ ret.st = "Ok"
    /\ Len(ret.val.body) = 2
    /\ ret.val.body[1].tag = "Int"
    /\ ret.val.body[2].tag = "Text"
    /\ ret.val.body[2].s = <<97, ReplacementChar>>

\* the width of the integer of serial type t in 1..6
IntWidth(t) == IF t = 5 THEN 6 ELSE IF t = 6 THEN 8 ELSE t

\* the number a word denotes as an i64, for words within 24 bits
SignedValue(w) ==
    (w[6] * 65536 + w[7] * 256 + w[8]) - (IF w[1] >= 128 THEN 16777216 ELSE 0)

RECURSIVE Unsigned(_)
\* the number big-endian bytes denote, for at most 3 bytes
Unsigned(bytes) ==
    IF bytes = <<>> THEN 0
    ELSE 256 * Unsigned(SubSeq(bytes, 1, Len(bytes) - 1)) + bytes[Len(bytes)]

\* C9: for serial types 1 to 6 the decoded Int is the two's-complement value
\* of the 1, 2, 3, 4, 6 or 8 big-endian body bytes sign-extended to 64 bits:
\* negative exactly when the top bit of the first byte is set, the low bytes
\* unchanged.
C9_IntSignExtended ==
    call.op = "from_type_and_data" =>
        LET size == IntWidth(call.col_type)
            bytes == Slice(data, call.offset, call.offset + size)
        IN  IF call.offset + size > Len(data) THEN ret = Err
            ELSE /\ ret.st = "Ok"
                 /\ ret.val.bytes_read = size
                 /\ ret.val.value.tag = "Int"
                 /\ LET w == ret.val.value.v
                    IN  /\ SubSeq(w, 8 - size + 1, 8) = bytes
                        /\ (w[1] >= 128) <=> (bytes[1] >= 128)
                        /\ \A k \in 1..(8 - size) :
                              w[k] = IF bytes[1] >= 128 THEN 255 ELSE 0
                        /\ size <= 3 =>
                              SignedValue(w) =
                                  Unsigned(bytes)
                                  - (IF bytes[1] >= 128
                                     THEN (IF size = 1 THEN 256
                                           ELSE IF size = 2 THEN 65536 ELSE 16777216)
                                     ELSE 0)

\* a negative 3-byte integer has been decoded
C9_Witness ==
    /\ call.op = "from_type_and_data"
    /\ call.col_type = 3
    /\ ret.st = "Ok"
    /\ ret.val.value.v = <<255, 255, 255, 255, 255, 128, 0, 1>>

RECURSIVE TypesEnd(_, _, _)
\* where the serial-type varints read from pos on stop, reading while
\* pos < hs: a position >= hs, or -1 when the payload ends first
TypesEnd(buf, pos, hs) ==
    IF pos >= hs THEN pos
    ELSE LET n == VarintLength(Avail(buf, pos))
         IN  IF n = 0 THEN -1 ELSE TypesEnd(buf, pos + n, hs)

\* the payload contradicts its header: the last serial-type varint runs past
\* the declared header size, the header size exceeds the payload, or the body
\* is shorter than the serial types require
Inconsistent(buf) ==
    LET sz == read_varint(buf, 0)
        hs == AsUsize(sz.val.value)
        end == TypesEnd(buf, sz.val.bytes_read, hs)
        h == RecordHeader_from_bytes(buf)
        types == SeqMap(AsUsize, h.val.column_types)
    IN  /\ sz.st = "Ok"
        /\ \/ hs > Len(buf)
           \/ (sz.val.bytes_read < hs /\ end > hs)
           \/ (end = hs /\ SumWidths(types, Len(types)) > Len(buf) - hs)

\* C10: from_bytes returns an error for every payload that is inconsistent
\* with its header.
C10_InconsistentRejected ==
    (call.op = "Record::from_bytes" /\ Inconsistent(data)) => ret.st = "Err"

\* the two ways of being inconsistent that from_bytes does reject
C10_ShortRejected ==
    (/\ call.op = "Record::from_bytes"
     /\ LET sz == read_varint(data, 0)
            hs == AsUsize(sz.val.value)
            h == RecordHeader_from_bytes(data)
            types == SeqMap(AsUsize, h.val.column_types)
        IN  /\ sz.st = "Ok"
            /\ \/ hs > Len(data)
               \/ /\ TypesEnd(data, sz.val.bytes_read, hs) = hs
                  /\ SumWidths(types, Len(types)) > Len(data) - hs)
    => ret.st = "Err"

\* the body bytes the values of a decoded record took
Consumed(record) ==
    LET types == SeqMap(AsUsize, record.header.column_types)
    IN  SumWidths(types, Len(types))

\* C11: when Record::from_bytes succeeds on a payload of length L with
\* declared header size H, the decoded values took L - H body bytes; a
\* payload with bytes left over behind the last value is not accepted.
C11_ConsumesWholeBody ==
    (call.op = "Record::from_bytes" /\ ret.st = "Ok") =>
        Consumed(ret.val) = Len(data) - AsUsize(ret.val.header.size)

\* what does hold: a well-formed payload is accepted and is consumed whole
C11_WellFormedConsumed ==
    (call.op = "Record::from_bytes" /\ WellFormedRecord) =>
        /\ ret.st = "Ok"
        /\ Consumed(ret.val) = Len(data) - AsUsize(ret.val.header.size)

\* the second half of C11 on its own: a payload that is well-formed up to
\* its last value and has a byte behind it is rejected
C11_TrailingRejected ==
    (/\ call.op = "Record::from_bytes"
     /\ fx.kind = "record" /\ fx.delta = 0 /\ fx.cut = 0 /\ fx.trailing # <<>>)
    => ret.st = "Err"

----------------------------------------------------------------------------
(* Inputs of the B-tree specification: database files laid out from their
   logical content as section 3 of the specification describes them.  Page 1
   is the 100-byte file header and the schema leaf with the rows
     ("table", "t", "t", 2, CREATE TABLE t (id integer primary key, c text))
     ("index", "idx", "t", root, CREATE INDEX idx on t (c))
   followed by the pages of the table tree and of the index tree, each tree
   in pre-order.  A tree is built bottom-up from the rows: leaves of `cap`
   cells, interior pages of `fanout` children. *)

\* most rows of a generated table
MaxRows == 3
\* page size of the generated files
FxPageSize == 256

Magic == <<83, 81, 76, 105, 116, 101, 32, 102, 111, 114, 109, 97, 116, 32, 51, 0>>
TableName == <<116>>
IndexName == <<105, 100, 120>>
ColumnName == <<99>>
CreateTableSql ==
    <<67, 82, 69, 65, 84, 69, 32, 84, 65, 66, 76, 69, 32, 116, 32, 40, 105, 100, 32,
      105, 110, 116, 101, 103, 101, 114, 32, 112, 114, 105, 109, 97, 114, 121, 32,
      107, 101, 121, 44, 32, 99, 32, 116, 101, 120, 116, 41>>
CreateIndexSql ==
    <<67, 82, 69, 65, 84, 69, 32, 73, 78, 68, 69, 88, 32, 105, 100, 120, 32, 111,
      110, 32, 116, 32, 40, 99, 41>>

\* the values of column c, and a value no row holds
FxValues == {<<97>>, <<98>>}
SearchValues == FxValues \cup {<<99>>}
\* the first row id of a table: 0 and 1 have serial types of their own, 128
\* is the first row id with a two-byte varint
FxBases == {0, 127}
Fanouts == {2, 3}

U16Bytes(n) == <<n \div 256, n % 256>>
U32Bytes(n) == <<n \div 16777216, (n \div 65536) % 256, (n \div 256) % 256, n % 256>>
\* the varint of a number below 2^14
FxVarint(n) == IF n < 128 THEN <<n>> ELSE <<128 + (n \div 128), n % 128>>

Zeros(n) == [i \in 1..n |-> 0]

LNull == [k |-> "null", n |-> 0, s |-> <<>>]
LInt(n) == [k |-> "int", n |-> n, s |-> <<>>]
LText(s) == [k |-> "text", n |-> 0, s |-> s]

\* serial type and body bytes of a value; schema format 4 (`compact`) stores
\* the integers 0 and 1 as the serial types 8 and 9
SerialOf(v, compact) ==
    CASE v.k = "null" -> [type |-> 0, bytes |-> <<>>]
      [] v.k = "text" -> [type |-> 13 + 2 * Len(v.s), bytes |-> v.s]
      [] v.k = "int" /\ compact /\ v.n = 0 -> [type |-> 8, bytes |-> <<>>]
      [] v.k = "int" /\ compact /\ v.n = 1 -> [type |-> 9, bytes |-> <<>>]
      [] v.k = "int" /\ v.n < 128 -> [type |-> 1, bytes |-> <<v.n>>]
      [] OTHER -> [type |-> 2, bytes |-> U16Bytes(v.n)]

RECURSIVE EncTypes(_, _)
EncTypes(vals, compact) ==
    IF vals = <<>> THEN <<>>
    ELSE FxVarint(SerialOf(vals[1], compact).type) \o EncTypes(Tail(vals), compact)

RECURSIVE EncBodies(_, _)
EncBodies(vals, compact) ==
    IF vals = <<>> THEN <<>>
    ELSE SerialOf(vals[1], compact).bytes \o EncBodies(Tail(vals), compact)

EncRecord(vals, compact) ==
    LET types == EncTypes(vals, compact)
    IN  FxVarint(1 + Len(types)) \o types \o EncBodies(vals, compact)

TableLeafCell(rid, vals, compact) ==
    LET payload == EncRecord(vals, compact)
    IN  FxVarint(Len(payload)) \o FxVarint(rid) \o payload

IndexLeafCell(e, compact) ==
    LET payload == EncRecord(<<LText(e.val), LInt(e.rid)>>, compact)
    IN  FxVarint(Len(payload)) \o payload

TableInteriorCell(child, key) == U32Bytes(child) \o FxVarint(key)
IndexInteriorCell(child, e, compact) == U32Bytes(child) \o IndexLeafCell(e, compact)

RECURSIVE CellsLen(_, _)
\* the bytes of the first i cells
CellsLen(cells, i) == IF i = 0 THEN 0 ELSE CellsLen(cells, i - 1) + Len(cells[i])

RECURSIVE CellPointers(_, _)
\* cell 1 ends the page, each next cell lies before the one before
CellPointers(cells, i) ==
    IF i = 0 THEN <<>>
    ELSE CellPointers(cells, i - 1) \o U16Bytes(FxPageSize - CellsLen(cells, i))

RECURSIVE CellContent(_, _)
CellContent(cells, i) ==
    IF i = 0 THEN <<>> ELSE cells[i] \o CellContent(cells, i - 1)

\* a page: what precedes the B-tree header, the header, the pointers, the gap
\* and the cell content
MakePage(prefix, page_type, cells, rightmost) ==
    LET k == Len(cells)
        header == <<page_type, 0, 0>> \o U16Bytes(k)
                  \o U16Bytes(FxPageSize - CellsLen(cells, k)) \o <<0>>
                  \o (IF page_type \in {INTERIOR_INDEX_PAGE, INTERIOR_TABLE_PAGE}
                      THEN U32Bytes(rightmost) ELSE <<>>)
        front == prefix \o header \o CellPointers(cells, k)
    IN  front \o Zeros(FxPageSize - Len(front) - CellsLen(cells, k))
        \o CellContent(cells, k)

\* the file header: magic, page size, format versions, reserved space,
\* payload fractions, then the schema format at offset 44 and the text
\* encoding (UTF-8) at offset 56
DbHeader(pages, compact) ==
    Magic \o U16Bytes(FxPageSize) \o <<1, 1, 0, 64, 32, 32>> \o U32Bytes(1)
    \o U32Bytes(pages) \o Zeros(12) \o U32Bytes(IF compact THEN 4 ELSE 1)
    \o Zeros(8) \o U32Bytes(1) \o Zeros(40)

Leaf(items) == [kind |-> "leaf", items |-> items, kids |-> <<>>, seps |-> <<>>]
Node(kids, seps) == [kind |-> "node", items |-> <<>>, kids |-> kids, seps |-> seps]

RECURSIVE TableLeaves(_, _)
\* the rows cut into leaves of cap cells
TableLeaves(rows, cap) ==
    IF Len(rows) <= cap THEN <<Leaf(rows)>>
    ELSE <<Leaf(SubSeq(rows, 1, cap))>> \o TableLeaves(SubSeq(rows, cap + 1, Len(rows)), cap)

RECURSIVE TableLevel(_, _)
\* one level up: an interior page over every `fanout` nodes
TableLevel(nodes, fanout) ==
    IF Len(nodes) <= fanout THEN <<Node(nodes, <<>>)>>
    ELSE <<Node(SubSeq(nodes, 1, fanout), <<>>)>>
         \o TableLevel(SubSeq(nodes, fanout + 1, Len(nodes)), fanout)

RECURSIVE TableRoot(_, _)
TableRoot(nodes, fanout) ==
    IF Len(nodes) = 1 THEN nodes[1] ELSE TableRoot(TableLevel(nodes, fanout), fanout)

RECURSIVE IndexLeaves(_, _)
\* the entries cut into leaves of cap cells with one entry between two
\* leaves, which goes into the interior page above them
IndexLeaves(entries, cap) ==
    IF Len(entries) <= cap + 1 THEN [nodes |-> <<Leaf(entries)>>, seps |-> <<>>]
    ELSE LET rest == IndexLeaves(SubSeq(entries, cap + 2, Len(entries)), cap)
         IN  [nodes |-> <<Leaf(SubSeq(entries, 1, cap))>> \o rest.nodes,
              seps |-> <<entries[cap + 1]>> \o rest.seps]

RECURSIVE IndexLevel(_, _, _)
\* one level up: an interior page over every `fanout` nodes and the entries
\* between them, the entry between two such pages going one level further up
IndexLevel(nodes, seps, fanout) ==
    IF Len(nodes) <= fanout THEN [nodes |-> <<Node(nodes, seps)>>, seps |-> <<>>]
    ELSE LET rest == IndexLevel(SubSeq(nodes, fanout + 1, Len(nodes)),
                                SubSeq(seps, fanout + 1, Len(seps)), fanout)
         IN  [nodes |-> <<Node(SubSeq(nodes, 1, fanout), SubSeq(seps, 1, fanout - 1))>>
                        \o rest.nodes,
              seps |-> <<seps[fanout]>> \o rest.seps]

RECURSIVE IndexRoot(_, _, _)
IndexRoot(nodes, seps, fanout) ==
    IF Len(nodes) = 1 THEN nodes[1]
    ELSE LET up == IndexLevel(nodes, seps, fanout)
         IN  IndexRoot(up.nodes, up.seps, fanout)

RECURSIVE TreeSize(_)
RECURSIVE KidsSize(_, _)
\* the pages of the first i children
KidsSize(kids, i) == IF i = 0 THEN 0 ELSE KidsSize(kids, i - 1) + TreeSize(kids[i])
TreeSize(t) == 1 + KidsSize(t.kids, Len(t.kids))

RECURSIVE TreeHeight(_)
TreeHeight(t) == IF t.kind = "leaf" THEN 1 ELSE 1 + TreeHeight(t.kids[1])

RECURSIVE InOrder(_)
RECURSIVE KidsInOrder(_, _)
\* the items of the first i children and of the entries between them
KidsInOrder(t, i) ==
    IF i = 0 THEN <<>>
    ELSE KidsInOrder(t, i - 1)
         \o (IF 1 < i /\ i - 1 <= Len(t.seps) THEN <<t.seps[i - 1]>> ELSE <<>>)
         \o InOrder(t.kids[i])
InOrder(t) == IF t.kind = "leaf" THEN t.items ELSE KidsInOrder(t, Len(t.kids))

\* the root page of the i-th child of a node that lies on page `first`
KidRoot(t, first, i) == first + 1 + KidsSize(t.kids, i - 1)

RECURSIVE LeafCells(_, _, _)
LeafCells(items, is_index, compact) ==
    IF items = <<>> THEN <<>>
    ELSE <<IF is_index THEN IndexLeafCell(items[1], compact)
           ELSE TableLeafCell(items[1].rid, <<LNull, LText(items[1].val)>>, compact)>>
         \o LeafCells(Tail(items), is_index, compact)

RECURSIVE InteriorCells(_, _, _, _, _)
\* the cells of the first i children but the last: a table cell carries the
\* last row id below its child, an index cell the entry behind its child
InteriorCells(t, first, i, is_index, compact) ==
    IF i = 0 THEN <<>>
    ELSE Append(InteriorCells(t, first, i - 1, is_index, compact),
                IF is_index
                THEN IndexInteriorCell(KidRoot(t, first, i), t.seps[i], compact)
                ELSE LET below == InOrder(t.kids[i])
                     IN  TableInteriorCell(KidRoot(t, first, i), below[Len(below)].rid))

RECURSIVE TreePages(_, _, _, _)
RECURSIVE KidsPages(_, _, _, _, _)
KidsPages(t, first, i, is_index, compact) ==
    IF i > Len(t.kids) THEN <<>>
    ELSE TreePages(t.kids[i], KidRoot(t, first, i), is_index, compact)
         \o KidsPages(t, first, i + 1, is_index, compact)

\* the pages of a tree in pre-order, the root on page `first`
TreePages(t, first, is_index, compact) ==
    IF t.kind = "leaf"
    THEN <<MakePage(<<>>, IF is_index THEN LEAF_INDEX_PAGE ELSE LEAF_TABLE_PAGE,
                    LeafCells(t.items, is_index, compact), 0)>>
    ELSE <<MakePage(<<>>, IF is_index THEN INTERIOR_INDEX_PAGE ELSE INTERIOR_TABLE_PAGE,
                    InteriorCells(t, first, Len(t.kids) - 1, is_index, compact),
                    KidRoot(t, first, Len(t.kids)))>>
         \o KidsPages(t, first, 1, is_index, compact)

\* index entries are kept in the order of (key, row id)
EntryBefore(a, b) ==
    \/ a.val # b.val /\ str_le(a.val, b.val)
    \/ a.val = b.val /\ a.rid < b.rid

TableTree(f) == TableRoot(TableLeaves(f.rows, f.cap), f.fanout)

IndexTree(f) ==
    LET leaves == IndexLeaves(SortSeq(f.rows, EntryBefore), f.cap)
    IN  IndexRoot(leaves.nodes, leaves.seps, f.fanout)

\* the schema page, and the table's root behind it
SchemaRootPage == 1
TableRootPage == SchemaRootPage + 1
IndexRootPage(f) == TableRootPage + TreeSize(TableTree(f))

SchemaPage(f) ==
    MakePage(DbHeader(IndexRootPage(f) + TreeSize(IndexTree(f)) - 1, f.compact),
             LEAF_TABLE_PAGE,
             <<TableLeafCell(1, <<LText(TableStr), LText(TableName), LText(TableName),
                                  LInt(TableRootPage), LText(CreateTableSql)>>, f.compact),
               TableLeafCell(2, <<LText(IndexStr), LText(IndexName), LText(TableName),
                                  LInt(IndexRootPage(f)), LText(CreateIndexSql)>>, f.compact)>>,
             0)

FileOf(f) ==
    SchemaPage(f)
    \o Concat(TreePages(TableTree(f), TableRootPage, FALSE, f.compact))
    \o Concat(TreePages(IndexTree(f), IndexRootPage(f), TRUE, f.compact))

RECURSIVE RowsFrom(_, _)
\* rows with the row ids rid, rid + 1, .. and the values vals
RowsFrom(rid, vals) ==
    IF vals = <<>> THEN <<>>
    ELSE <<[rid |-> rid, val |-> vals[1]]>> \o RowsFrom(rid + 1, Tail(vals))

RECURSIVE Reverse(_)
Reverse(s) == IF s = <<>> THEN <<>> ELSE Append(Reverse(Tail(s)), s[1])

RECURSIVE Alternating(_, _)
\* n values, by turns a and b
Alternating(n, a) ==
    IF n = 0 THEN <<>>
    ELSE <<IF a THEN <<97>> ELSE <<98>>>> \o Alternating(n - 1, ~a)

\* the values of column c, row by row: no two neighbours alike, or all alike
FxColumns == {Alternating(n, TRUE) : n \in 0..MaxRows}
             \cup {Alternating(n, FALSE) : n \in 0..MaxRows}
             \cup {[i \in 1..n |-> <<97>>] : n \in 0..MaxRows}

\* the tables: rows in row-id order, and, for the walkers that do not look
\* at keys, in falling order as well
BtreeFixtures ==
    {[kind |-> "db", base |-> base,
      rows |-> IF asc THEN RowsFrom(base, vals) ELSE Reverse(RowsFrom(base, vals)),
      ascending |-> asc, cap |-> cap, fanout |-> fanout, compact |-> compact] :
        base \in FxBases, vals \in FxColumns, asc \in BOOLEAN,
        cap \in 1..MaxRows, fanout \in Fanouts, compact \in BOOLEAN}

\* one fixture for each file: a parameter that does not change the layout is
\* kept at its least value; rows in falling order come in one encoding only
Canonical(f) ==
    /\ f.cap <= Max(Len(f.rows), 1)
    /\ (Len(TableLeaves(f.rows, f.cap)) <= 2 => f.fanout = 2)
    /\ (Len(f.rows) <= 1 => f.ascending)
    /\ (~f.ascending => f.base = 127 /\ ~f.compact)

InitBtree ==
    /\ fx \in {f \in BtreeFixtures : Canonical(f)}
    /\ file = FileOf(fx)
    /\ page_size = Database_new(file).val.page_size
    /\ cursor = position_after(0, DB_HEADER_SIZE)
    /\ overflow_checks = TRUE
    /\ data = <<>>
    /\ app = NoApp
    /\ call = NoCall
    /\ ret = NoRet

GetTableRows ==
    /\ call' = [op |-> "get_table_rows", table_name |-> TableName]
    /\ ret' = get_table_rows(TableName)
    /\ cursor' = NotTracked
    /\ UNCHANGED <<app, data, file, page_size, overflow_checks, fx>>

\* the row ids probed: those of the table and the first one behind them
GetTableRowById ==
    \E row_id \in {fx.rows[i].rid : i \in 1..Len(fx.rows)} \cup {fx.base + Len(fx.rows)} :
        /\ call' = [op |-> "get_table_row_by_id", table_name |-> TableName,
                    row_id |-> row_id]
        /\ ret' = get_table_row_by_id(TableName, NatToWord(row_id))
        /\ cursor' = NotTracked
        /\ UNCHANGED <<app, data, file, page_size, overflow_checks, fx>>

CountTableRows ==
    /\ call' = [op |-> "count_table_rows", table_name |-> TableName]
    /\ ret' = count_table_rows(TableName)
    /\ cursor' = position_after_page(TableRootPage)
    /\ UNCHANGED <<app, data, file, page_size, overflow_checks, fx>>

\* search_index on the index that find_index_for_column returned
SearchIndexOn(index, search_value) ==
    /\ index.st = "Ok"
    /\ index.val.some
    /\ call' = [op |-> "search_index", rootpage |-> index.val.v.rootpage,
                search_value |-> search_value]
    /\ ret' = search_index(index.val.v, search_value)
    /\ cursor' = NotTracked
    /\ UNCHANGED <<app, data, file, page_size, overflow_checks, fx>>

\* find_index_for_column then search_index, as handle_select_columns calls
\* them
SearchIndex ==
    \E search_value \in SearchValues :
        SearchIndexOn(find_index_for_column(TableName, ColumnName), search_value)

\* handle_select_columns up to `table_data`
SelectColumns ==
    \E where_condition \in {None} \cup
            {Some([column_name |-> ColumnName, operator |-> "Equal", value |-> v]) :
                 v \in SearchValues} :
        /\ call' = [op |-> "handle_select_columns", table_name |-> TableName,
                    where_condition |-> where_condition]
        /\ ret' = select_table_data(TableName, where_condition)
        /\ cursor' = NotTracked
        /\ UNCHANGED <<app, data, file, page_size, overflow_checks, fx>>

NextBtree ==
    GetTableRows \/ GetTableRowById \/ SearchIndex \/ SelectColumns \/ CountTableRows

SpecBtree == InitBtree /\ [][NextBtree]_vars

----------------------------------------------------------------------------
(* What the walkers are to return, read off the logical content *)

\* the columns of CREATE TABLE t (id integer primary key, c text)
ExpectedColumns ==
    <<[name |-> <<105, 100>>, index |-> 0, is_primary_key |-> TRUE],
      [name |-> ColumnName, index |-> 1, is_primary_key |-> FALSE]>>

\* the row of a table cell: the row id for the primary key, the text of c
ExpectedRow(r) ==
    [row_id |-> NatToWord(r.rid),
     values |-> <<RV_Int(NatToWord(r.rid)), RV_Text(r.val)>>]

\* the elements of a sequence
Range(s) == {s[i] : i \in 1..Len(s)}

\* the row ids of the rows whose column c displays as v
MatchingRowIds(v) ==
    {NatToWord(r.rid) : r \in {q \in Range(fx.rows) : to_display_string(RV_Text(q.val)) = v}}

\* C3: the full scan returns the cells of the leaves below the table's root,
\* each once, in in-order sequence (a leaf's cells in pointer order, an
\* interior page's children in pointer order and then the rightmost child);
\* so there are as many rows as the reachable leaves have cells
C3_ScanInOrder ==
    (fx.kind = "db" /\ call.op = "get_table_rows")
    => /\ ret = Ok([columns |-> ExpectedColumns,
                    rows |-> SeqMap(ExpectedRow, InOrder(TableTree(fx)))])
       /\ Len(ret.val.rows) = Len(fx.rows)

\* a scan of a table of three levels that returned all its rows
C3_Witness ==
    /\ fx.kind = "db"
    /\ call.op = "get_table_rows"
    /\ TreeHeight(TableTree(fx)) >= 3
    /\ ret.st = "Ok"
    /\ Len(ret.val.rows) = MaxRows

\* C4: on a well-formed table tree (leaf cells in row-id order, interior keys
\* bounding their left subtrees) the row ids of the scanned rows are strictly
\* ascending
C4_ScanAscending ==
    (fx.kind = "db" /\ call.op = "get_table_rows" /\ fx.ascending)
    => /\ ret.st = "Ok"
       /\ \A i, j \in 1..Len(ret.val.rows) :
              i < j => AsUsize(ret.val.rows[i].row_id) < AsUsize(ret.val.rows[j].row_id)

\* a scan of a well-formed table with interior pages that returned several
\* rows
C4_Witness ==
    /\ fx.kind = "db"
    /\ call.op = "get_table_rows"
    /\ fx.ascending
    /\ TreeHeight(TableTree(fx)) >= 2
    /\ ret.st = "Ok"
    /\ Len(ret.val.rows) >= 2

\* C5: get_table_row_by_id(r) returns the scanned row with row id r when the
\* full scan of the table has one, and None when it has none
C5_ProbeMatchesScan ==
    (fx.kind = "db" /\ call.op = "get_table_row_by_id")
    => LET scan == get_table_rows(TableName)
           hits == {row \in Range(scan.val.rows) : row.row_id = NatToWord(call.row_id)}
       IN  /\ scan.st = "Ok"
           /\ ret.st = "Ok"
           /\ (hits # {} => ret.val.some /\ ret.val.v \in hits)
           /\ (hits = {} => ~ret.val.some)

\* a probe that found a row that is not below the first child of the root
C5_Witness ==
    /\ fx.kind = "db"
    /\ call.op = "get_table_row_by_id"
    /\ TreeHeight(TableTree(fx)) >= 2
    /\ ret.st = "Ok"
    /\ ret.val.some
    /\ ret.val.v.row_id # ExpectedRow(InOrder(TableTree(fx))[1]).row_id

\* a probe for a row id the table does not have, which found nothing
C5_WitnessAbsent ==
    /\ fx.kind = "db"
    /\ call.op = "get_table_row_by_id"
    /\ fx.rows # <<>>
    /\ call.row_id \notin {r.rid : r \in Range(fx.rows)}
    /\ ret = Ok(None)

\* C1: search_index on the root of the index on c returns exactly the row ids
\* of the rows whose column c displays as the search value
C1_IndexProbeExact ==
    (fx.kind = "db" /\ call.op = "search_index")
    => /\ ret.st = "Ok"
       /\ Range(ret.val) = MatchingRowIds(call.search_value)

\* the index probe invents no row: every row id it returns is one of a
\* matching row
C1_IndexProbeSound ==
    (fx.kind = "db" /\ call.op = "search_index")
    => /\ ret.st = "Ok"
       /\ Range(ret.val) \subseteq MatchingRowIds(call.search_value)

\* where the index is one leaf and no row id is 0 or 1 stored as a serial
\* type of its own, the index probe is exact
C1_LeafProbeExact ==
    (/\ fx.kind = "db"
     /\ call.op = "search_index"
     /\ TreeHeight(IndexTree(fx)) = 1
     /\ (fx.compact => \A r \in Range(fx.rows) : r.rid > 1))
    => /\ ret.st = "Ok"
       /\ Range(ret.val) = MatchingRowIds(call.search_value)

\* C2: for WHERE c = v the rows read through the index (search_index, then
\* get_table_rows_by_ids) are the rows of the full scan that pass
\* apply_where_filter
C2_IndexPathEqualsScan ==
    (/\ fx.kind = "db"
     /\ call.op = "handle_select_columns"
     /\ call.where_condition.some)
    => LET scanned == scan_and_filter(TableName, call.where_condition.v)
       IN  /\ scanned.st = "Ok"
           /\ ret.st = "Ok"
           /\ ret.val.columns = scanned.val.columns
           /\ Range(ret.val.rows) = Range(scanned.val.rows)

\* the rows read through the index are rows of the filtered scan
C2_IndexPathSound ==
    (/\ fx.kind = "db"
     /\ call.op = "handle_select_columns"
     /\ call.where_condition.some)
    => LET scanned == scan_and_filter(TableName, call.where_condition.v)
       IN  /\ scanned.st = "Ok"
           /\ ret.st = "Ok"
           /\ ret.val.columns = scanned.val.columns
           /\ Range(ret.val.rows) \subseteq Range(scanned.val.rows)

----------------------------------------------------------------------------
(* Inputs of the pager specification: files that are a header and filler
   bytes, with every kind of page-size field and of length, and four-page
   files with a fault in one place:
     page 1  schema leaf, one row for the table t rooted at page 2
     page 2  interior table page: child 3 up to row id 2, rightmost child 4
     page 3  table leaf, row ids 1 and 2
     page 4  table leaf, row id 3 *)

\* the largest page number an operation is called with
MaxPage == 5

\* page-size fields: none, the sentinel 1, below the range, not a power of
\* two, and powers of two within the range
HeaderSizes == {0, 1, FxPageSize, 511, 512, 1024, 32768}
\* file lengths: empty, ending inside and right before the field's end, one
\* byte short of a header, a header, and several pages
HeaderLens == {0, 17, 99, 100, 1100}

Faults ==
    {"none", "payload", "pointer", "count", "child_zero", "child_beyond", "lost_child",
     "child_self", "index_self"}

\* bytes that differ from place to place
Filler(n) == [i \in 1..n |-> (i * 7) % 251]

HeaderWith(size) ==
    [DbHeader(1, FALSE) EXCEPT ![17] = size \div 256, ![18] = size % 256]

HeaderFile(size, len) ==
    IF len <= DB_HEADER_SIZE THEN SubSeq(HeaderWith(size), 1, len)
    ELSE HeaderWith(size) \o Filler(len - DB_HEADER_SIZE)

\* f with the bytes from position pos (0-based) on replaced by bytes
Patch(f, pos, bytes) ==
    [i \in 1..Len(f) |-> IF i > pos /\ i <= pos + Len(bytes) THEN bytes[i - pos]
                         ELSE f[i]]

\* a table-leaf cell that states a payload of FxPageSize bytes more than it
\* has
OversizedCell(rid, vals) ==
    LET payload == EncRecord(vals, FALSE)
    IN  FxVarint(Len(payload) + FxPageSize) \o FxVarint(rid) \o payload

FaultyFile(fault) ==
    LET row(rid) == TableLeafCell(rid, <<LNull, LText(<<96 + rid>>)>>, FALSE)
        schema == MakePage(DbHeader(4, FALSE), LEAF_TABLE_PAGE,
                           <<TableLeafCell(1, <<LText(TableStr), LText(TableName),
                                                LText(TableName), LInt(TableRootPage),
                                                LText(CreateTableSql)>>, FALSE)>>, 0)
        root == MakePage(<<>>, INTERIOR_TABLE_PAGE,
                         <<TableInteriorCell(CASE fault = "child_zero" -> 0
                                               [] fault = "child_self" -> TableRootPage
                                               [] OTHER -> 3, 2)>>,
                         IF fault = "child_beyond" THEN 5 ELSE 4)
        left == MakePage(<<>>, LEAF_TABLE_PAGE,
                         <<IF fault = "payload"
                           THEN OversizedCell(1, <<LNull, LText(<<97>>)>>)
                           ELSE row(1),
                           row(2)>>, 0)
        right == MakePage(<<>>, LEAF_TABLE_PAGE, <<row(3)>>, 0)
    IN  schema
        \o (IF fault = "lost_child" THEN Patch(root, 12, U16Bytes(FxPageSize - 1))
            ELSE root)
        \o left
        \o (CASE fault = "pointer" -> Patch(right, BTREE_HEADER_SIZE, U16Bytes(FxPageSize))
              [] fault = "count" -> Patch(right, 3, U16Bytes(FxPageSize))
              [] fault = "index_self" -> MakePage(<<>>, INTERIOR_INDEX_PAGE, <<>>, 4)
              [] OTHER -> right)

PagerFixtures ==
    {[kind |-> "header", size |-> size, len |-> len, fault |-> "none"] :
        size \in HeaderSizes, len \in HeaderLens}
    \cup {[kind |-> "pages", size |-> FxPageSize, len |-> 4 * FxPageSize,
           fault |-> fault] : fault \in Faults}

PagerFile(f) ==
    IF f.kind = "header" THEN HeaderFile(f.size, f.len) ELSE FaultyFile(f.fault)

\* before Database::new there is no Database
InitPager ==
    /\ fx \in PagerFixtures
    /\ file = PagerFile(fx)
    /\ overflow_checks \in BOOLEAN
    /\ page_size = 0
    /\ cursor = 0
    /\ data = <<>>
    /\ app = NoApp
    /\ call = NoCall
    /\ ret = NoRet

\* Database::new(path) on the file; page_size is a field of the Database it
\* returns
DatabaseNew ==
    /\ call = NoCall
    /\ call' = [op |-> "Database::new", page_number |-> 0, position |-> cursor]
    /\ ret' = Database_new(file)
    /\ page_size' = IF Database_new(file).st = "Ok"
                    THEN Database_new(file).val.page_size
                    ELSE page_size
    /\ cursor' = position_after(0, DB_HEADER_SIZE)
    /\ UNCHANGED <<app, data, file, overflow_checks, fx>>

\* a Database exists
Opened == call # NoCall /\ Database_new(file).st = "Ok"

\* the page numbers the operations are called with: from 0 to the first
\* behind the file
PageNumbers == 0..Min(NumPages + 1, MaxPage)

ReadPageData ==
    \E page_number \in PageNumbers :
        /\ Opened
        /\ call' = [op |-> "read_page_data", page_number |-> page_number,
                    position |-> cursor]
        /\ ret' = read_page_data(page_number)
        /\ cursor' = position_after_page(page_number)
        /\ UNCHANGED <<app, data, file, page_size, overflow_checks, fx>>

\* get_cell_offsets on the bytes of a page that read_page_data returned
GetCellOffsets ==
    \E page_number \in PageNumbers \ {0} :
        /\ Opened
        /\ read_page_data(page_number).st = "Ok"
        /\ call' = [op |-> "get_cell_offsets", page_number |-> page_number,
                    position |-> cursor]
        /\ ret' = get_cell_offsets(read_page_data(page_number).val, page_number)
        /\ cursor' = position_after_page(page_number)
        /\ UNCHANGED <<app, data, file, page_size, overflow_checks, fx>>

ReadPage ==
    \E page_number \in PageNumbers :
        /\ Opened
        /\ call' = [op |-> "read_page", page_number |-> page_number,
                    position |-> cursor]
        /\ ret' = read_page(page_number)
        /\ cursor' = position_after_page(page_number)
        /\ UNCHANGED <<app, data, file, page_size, overflow_checks, fx>>

CollectAllTableCells ==
    \E page_num \in PageNumbers :
        /\ Opened
        /\ call' = [op |-> "collect_all_table_cells", page_number |-> page_num,
                    position |-> cursor]
        /\ ret' = collect_all_table_cells(page_num)
        /\ cursor' = NotTracked
        /\ UNCHANGED <<app, data, file, page_size, overflow_checks, fx>>

\* the row ids probed: one of the left leaf, one of the right leaf, one of
\* no row
SearchTableForRowId ==
    \E page_num \in PageNumbers, target_row_id \in {1, 3, 4} :
        /\ Opened
        /\ call' = [op |-> "search_table_for_row_id", page_number |-> page_num,
                    target_row_id |-> target_row_id, position |-> cursor]
        /\ ret' = search_table_for_row_id(page_num, NatToWord(target_row_id))
        /\ cursor' = NotTracked
        /\ UNCHANGED <<app, data, file, page_size, overflow_checks, fx>>

TraverseIndexForValue ==
    \E page_num \in PageNumbers :
        /\ Opened
        /\ call' = [op |-> "traverse_index_for_value", page_number |-> page_num,
                    search_value |-> <<97>>, position |-> cursor]
        /\ ret' = traverse_index_for_value(page_num, <<97>>, <<>>, 1)
        /\ cursor' = NotTracked
        /\ UNCHANGED <<app, data, file, page_size, overflow_checks, fx>>

NextPager ==
    \/ DatabaseNew
    \/ ReadPageData
    \/ GetCellOffsets
    \/ ReadPage
    \/ CollectAllTableCells
    \/ SearchTableForRowId
    \/ TraverseIndexForValue

SpecPager == InitPager /\ [][NextPager]_vars

----------------------------------------------------------------------------
(* Claims on the pager *)

\* the big-endian 16-bit value at byte offset 16 of the file
PageSizeField == U16(file[17], file[18])

ValidPageSizes == {512, 1024, 2048, 4096, 8192, 16384, 32768, 65536}

\* C12: Database::new fails when the file is shorter than 100 bytes or when
\* the big-endian 16-bit value at byte offset 16 is not a power of two in
\* [512, 65536].
C12_BadHeaderRejected ==
    (/\ call.op = "Database::new"
     /\ \/ Len(file) < 100
        \/ PageSizeField \notin ValidPageSizes)
    => ret.st = "Err"

\* what does hold of C12: a file shorter than 100 bytes is rejected, and the
\* page size of a Database is the value of the field
C12_PageSizeCached ==
    /\ (call.op = "Database::new" /\ Len(file) < 100) => ret.st = "Err"
    /\ (call.op = "Database::new" /\ Len(file) >= 100) =>
           /\ ret.st = "Ok"
           /\ ret.val.page_size = PageSizeField
    /\ Opened => page_size = PageSizeField

\* and the page size never changes while the Database lives
C12_PageSizeStable == [][call # NoCall => page_size' = page_size]_vars

\* the bytes of page n of the file
PageBytes(n) == SubSeq(file, (n - 1) * page_size + 1, n * page_size)

\* the pointer array of page bytes whose B-tree header is at offset h and
\* states count cells
PointerArray(bytes, h, count) ==
    [k \in 1..count |-> bytes[h + 8 + 2 * k - 1] * 256 + bytes[h + 8 + 2 * k]]

\* C13: for every page number n with 1 <= n <= file_size / page_size,
\* reading page n yields the page_size file bytes from (n-1)*page_size on,
\* wherever the file stood before; and the cell offsets derived from the page
\* are as many as the cell count in its B-tree header, which is at offset 100
\* on page 1 and at 0 on every other page (an error when the page ends before
\* the header's count or before the last pointer).
C13_PageAndOffsets ==
    LET n == call.page_number
        h == IF n = 1 THEN 100 ELSE 0
    IN  /\ (call.op = "read_page_data" /\ 1 <= n /\ n <= NumPages) =>
               /\ ret.st = "Ok"
               /\ Len(ret.val) = page_size
               /\ ret.val = PageBytes(n)
        /\ (call.op = "get_cell_offsets" /\ 1 <= n /\ n <= NumPages) =>
               IF h + 5 > page_size THEN ret = Err
               ELSE LET count == PageBytes(n)[h + 4] * 256 + PageBytes(n)[h + 5]
                    IN  IF h + 8 + 2 * count > page_size THEN ret = Err
                        ELSE /\ ret.st = "Ok"
                             /\ Len(ret.val) = count
                             /\ ret.val = PointerArray(PageBytes(n), h, count)

\* page 2 has been read with the file standing behind page 3
C13_Witness ==
    /\ call.op = "read_page_data"
    /\ call.page_number = 2
    /\ call.position = 3 * page_size
    /\ page_size = FxPageSize
    /\ ret.st = "Ok"

\* the two cell offsets of a page other than page 1 have been derived
C13_WitnessOffsets ==
    /\ call.op = "get_cell_offsets"
    /\ call.page_number = 3
    /\ ret.st = "Ok"
    /\ Len(ret.val) = 2

\* C14: a Database operation whose offset computation exceeds a buffer or
\* the file returns an error value and never aborts the program.
C14_NeverAborts == ret.st \notin {"Panic", "StackOverflow"}

\* what does hold of C14: a cell pointer outside the page and a page number
\* behind the last page give an error value
C14_BeyondIsError ==
    /\ (call.op \in {"read_page_data", "read_page", "collect_all_table_cells"}
        /\ call.page_number > NumPages /\ page_size > 0) => ret = Err
    /\ (call.op = "read_page" /\ fx.fault = "pointer" /\ call.page_number = 4)
           => ret = Err
    /\ (call.op = "collect_all_table_cells" /\ fx.fault = "child_beyond"
        /\ call.page_number = 2) => ret = Err

\* what the operations do instead: the slice of a payload that runs past the
\* page panics, and so does page number 0 in a build with overflow checks
C14_Outcomes ==
    /\ (call.op \in {"read_page", "collect_all_table_cells"} /\ fx.fault = "payload"
        /\ call.page_number = 3) => ret = Panic
    /\ (call.op = "collect_all_table_cells" /\ fx.fault \in {"payload", "child_zero"}
        /\ call.page_number = 2 /\ overflow_checks) => ret = Panic
    /\ (call.op = "collect_all_table_cells" /\ fx.fault = "child_zero"
        /\ call.page_number = 2 /\ ~overflow_checks) => ret = Err
    /\ (call.op \in {"read_page_data", "read_page", "collect_all_table_cells"}
        /\ call.page_number = 0 /\ page_size > 0) =>
           ret = (IF overflow_checks THEN Panic ELSE Err)

----------------------------------------------------------------------------
(* Claims on what a traversal does with a cell it cannot decode *)

\* page page_num is an interior table page with a cell pointer at which no
\* child page number can be read
UnreadableChild(page_num) ==
    LET page_data == read_page_data(page_num)
        cell_offsets == cell_pointers(page_data.val, page_num, 12)
    IN  /\ page_data.st = "Ok"
        /\ get_dbheader_offset(page_num) < Len(page_data.val)
        /\ page_data.val[get_dbheader_offset(page_num) + 1] = INTERIOR_TABLE_PAGE
        /\ cell_offsets.st = "Ok"
        /\ \E i \in 1..Len(cell_offsets.val) :
               read_page_number_from_cell(page_data.val, cell_offsets.val[i]).st # "Ok"

\* C15 for the table scan: when a child pointer of the page the scan starts
\* at cannot be read, the scan returns an error and no cells.
C15_UnreadableChildFails ==
    (call.op = "collect_all_table_cells" /\ UnreadableChild(call.page_number))
    => ret.st # "Ok"

\* page page_num is an index leaf with a cell read_index_cell fails on
\* (without a panic)
UndecodableIndexCell(page_num) ==
    LET page_data == read_page_data(page_num)
        cell_offsets == get_cell_offsets(page_data.val, page_num)
    IN  /\ page_data.st = "Ok"
        /\ get_dbheader_offset(page_num) < Len(page_data.val)
        /\ page_data.val[get_dbheader_offset(page_num) + 1] = LEAF_INDEX_PAGE
        /\ cell_offsets.st = "Ok"
        /\ \E i \in 1..Len(cell_offsets.val) :
               read_index_cell(page_data.val, cell_offsets.val[i]).st = "Err"

\* C15 for the index probe: when a cell of the index's root leaf cannot be
\* decoded, the probe returns an error.
C15_UndecodableIndexCellFails ==
    (call.op = "search_index" /\ UndecodableIndexCell(call.rootpage))
    => ret.st # "Ok"

\* what does hold: a table-leaf cell that does not decode fails the scan and
\* the read of the page (with an error or a panic)
C15_LeafCellFails ==
    LET faulty == IF fx.fault = "payload" THEN 3 ELSE 4
    IN  /\ (call.op = "read_page" /\ fx.fault \in {"payload", "pointer"}
            /\ call.page_number = faulty) => ret.st # "Ok"
        /\ (call.op = "collect_all_table_cells" /\ fx.fault \in {"payload", "pointer"}
            /\ call.page_number \in {2, faulty}) => ret.st # "Ok"

----------------------------------------------------------------------------
(* Inputs of the catalog specification: files whose sqlite_schema B-tree
   holds up to MaxSchemaRows rows, as the one leaf page 1 or as an interior
   page 1 with one leaf per row on the pages behind it. *)

MaxSchemaRows == 3

\* "(a)": the SQL text of the rows
ShortSql == <<40, 97, 41>>

SchemaRow(type, name, tbl_name, rootpage) ==
    [type |-> type, name |-> name, tbl_name |-> tbl_name, rootpage |-> rootpage,
     sql |-> ShortSql]

\* a table t, a table T, an index on t, and a table row whose name "a" is
\* not its tbl_name "b"
SchemaRows ==
    { SchemaRow(TableStr, <<116>>, <<116>>, 2),
      SchemaRow(TableStr, <<84>>, <<84>>, 3),
      SchemaRow(IndexStr, IndexName, <<116>>, 4),
      SchemaRow(TableStr, <<97>>, <<98>>, 5) }

\* the identifiers looked up: t, T, a, b and one no row has
LookupNames == {<<116>>, <<84>>, <<97>>, <<98>>, <<120>>}

SchemaCell(rid, row) ==
    TableLeafCell(rid, <<LText(row.type), LText(row.name), LText(row.tbl_name),
                         LInt(row.rootpage), LText(row.sql)>>, FALSE)

RECURSIVE SchemaCells(_, _)
\* the cells of the first n rows, with the row ids 1..n
SchemaCells(rows, n) ==
    IF n = 0 THEN <<>> ELSE Append(SchemaCells(rows, n - 1), SchemaCell(n, rows[n]))

RECURSIVE SchemaLeaves(_, _)
\* one leaf page for each of the first n rows
SchemaLeaves(rows, n) ==
    IF n = 0 THEN <<>>
    ELSE SchemaLeaves(rows, n - 1)
         \o MakePage(<<>>, LEAF_TABLE_PAGE, <<SchemaCell(n, rows[n])>>, 0)

RECURSIVE SchemaDividers(_)
\* the cells of the interior page 1: the leaf of row i is page i + 1
SchemaDividers(n) ==
    IF n = 0 THEN <<>> ELSE Append(SchemaDividers(n - 1), TableInteriorCell(n + 1, n))

CatalogFile(f) ==
    LET n == Len(f.rows)
    IN  IF f.layout = "leaf"
        THEN MakePage(DbHeader(1, FALSE), LEAF_TABLE_PAGE, SchemaCells(f.rows, n), 0)
        ELSE IF n = 0
        THEN MakePage(DbHeader(2, FALSE), INTERIOR_TABLE_PAGE, <<>>, 2)
             \o MakePage(<<>>, LEAF_TABLE_PAGE, <<>>, 0)
        ELSE MakePage(DbHeader(n + 1, FALSE), INTERIOR_TABLE_PAGE,
                      SchemaDividers(n - 1), n + 1)
             \o SchemaLeaves(f.rows, n)

CatalogFixtures ==
    {[kind |-> "catalog", rows |-> rows, layout |-> layout] :
        rows \in SeqsUpTo(SchemaRows, MaxSchemaRows), layout \in {"leaf", "interior"}}

InitCatalog ==
    /\ fx \in CatalogFixtures
    /\ file = CatalogFile(fx)
    /\ page_size = Database_new(file).val.page_size
    /\ cursor = position_after(0, DB_HEADER_SIZE)
    /\ overflow_checks = TRUE
    /\ data = <<>>
    /\ app = NoApp
    /\ call = NoCall
    /\ ret = NoRet

GetAllSchemaObjects ==
    /\ call' = [op |-> "get_all_schema_objects"]
    /\ ret' = get_all_schema_objects
    /\ cursor' = position_after_page(1)
    /\ UNCHANGED <<app, data, file, page_size, overflow_checks, fx>>

GetTableNames ==
    /\ call' = [op |-> "get_table_names"]
    /\ ret' = get_table_names
    /\ cursor' = position_after_page(1)
    /\ UNCHANGED <<app, data, file, page_size, overflow_checks, fx>>

FindTableInfo ==
    \E table_name \in LookupNames :
        /\ call' = [op |-> "find_table_info", table_name |-> table_name]
        /\ ret' = find_table_info(table_name)
        /\ cursor' = position_after_page(1)
        /\ UNCHANGED <<app, data, file, page_size, overflow_checks, fx>>

NextCatalog == GetAllSchemaObjects \/ GetTableNames \/ FindTableInfo

SpecCatalog == InitCatalog /\ [][NextCatalog]_vars

----------------------------------------------------------------------------
(* Claims on the catalog *)

RECURSIVE Ascending(_)
\* the numbers of a finite set in rising order
Ascending(S) ==
    IF S = {} THEN <<>> ELSE <<SetMin(S)>> \o Ascending(S \ {SetMin(S)})

\* the positions, in order, of the rows of type "table"
TablePositions(rows) == Ascending({i \in 1..Len(rows) : rows[i].type = TableStr})

\* the schema object of a row
ObjectOf(row) ==
    [object_type |-> row.type, name |-> row.name, tbl_name |-> row.tbl_name,
     rootpage |-> row.rootpage, sql |-> Some(row.sql)]

\* the values of the record of a row
RecordOf(row) ==
    <<RV_Text(row.type), RV_Text(row.name), RV_Text(row.tbl_name),
      RV_Int(NatToWord(row.rootpage)), RV_Text(row.sql)>>

\* the operation sees every row of the schema B-tree, in order
SeesEveryRow ==
    LET tables == TablePositions(fx.rows)
    IN  /\ call.op = "get_all_schema_objects" =>
               /\ ret.st = "Ok"
               /\ ret.val = [i \in 1..Len(fx.rows) |-> ObjectOf(fx.rows[i])]
        /\ call.op = "get_table_names" =>
               /\ ret.st = "Ok"
               /\ ret.val = [k \in 1..Len(tables) |-> fx.rows[tables[k]].tbl_name]
        /\ call.op = "find_table_info" =>
               (ret.st = "Ok" <=>
                    \E k \in 1..Len(tables) :
                        fx.rows[tables[k]].tbl_name = call.table_name)

\* C16: get_all_schema_objects, get_table_names and find_table_info see
\* every row of the schema B-tree rooted at page 1, in order, whether page 1
\* is a leaf or an interior page with the rows on its child pages.
C16_CatalogSeesEveryRow == SeesEveryRow

\* what does hold: the rows of a leaf page 1 are all seen, in order
C16_LeafCatalogSeen == fx.layout = "leaf" => SeesEveryRow

\* what the operations return for an interior page 1: page 1 is read as a
\* leaf, its right-child bytes as cell pointers; with one cell or more the
\* "cell" at offset 0 is the file's magic string and fails to decode, with
\* none no row is seen
C16_InteriorOutcome ==
    (fx.layout = "interior" /\ call # NoCall) =>
        ret = (IF Len(fx.rows) >= 2 \/ call.op = "find_table_info" THEN Err
               ELSE Ok(<<>>))

\* find_table_info returns the first row, in cell order, that is a table and
\* whose column `column` is the identifier; an error when there is none
FirstTableBy(column) ==
    call.op = "find_table_info" =>
        LET hits == Ascending({i \in 1..Len(fx.rows) :
                                  /\ fx.rows[i].type = TableStr
                                  /\ fx.rows[i][column] = call.table_name})
        IN  IF hits = <<>> THEN ret = Err
            ELSE /\ ret.st = "Ok"
                 /\ AsUsize(ret.val.row_id) = hits[1]
                 /\ ret.val.record.body = RecordOf(fx.rows[hits[1]])

\* C17: find_table_info(t) returns the first schema row, in page-1 cell
\* order, whose type is "table" and whose name column equals t byte for
\* byte, and an error when there is no such row (page 1 a leaf).
C17_FirstTableNamed == fx.layout = "leaf" => FirstTableBy("name")

\* what does hold: the column compared is tbl_name, and on a catalog whose
\* table rows have the same name and tbl_name the claim holds
C17_FirstTableByTblName == fx.layout = "leaf" => FirstTableBy("tbl_name")

C17_ConsistentCatalog ==
    (fx.layout = "leaf"
     /\ \A i \in 1..Len(fx.rows) : fx.rows[i].name = fx.rows[i].tbl_name
                                    \/ fx.rows[i].type # TableStr)
    => FirstTableBy("name")

----------------------------------------------------------------------------
(* Inputs of the schema specification: CREATE TABLE texts put together from
   up to MaxFragments column declarations, between parentheses and with the
   parentheses missing or out of order. *)

MaxFragments == 3

Fragment(text, name, pk) == [text |-> text, name |-> name, pk |-> pk]

\* a declaration: its text, its first word (none for a blank one) and
\* whether its lowercased text contains "primary key"
Fragments ==
    { Fragment(<<>>, <<>>, FALSE),
      Fragment(<<32>>, <<>>, FALSE),
      Fragment(<<97>>, <<97>>, FALSE),
      Fragment(<<32, 98, 9, 105, 110, 116, 32>>, <<98>>, FALSE),
      Fragment(<<105, 100, 32>> \o PrimaryKeyStr, <<105, 100>>, TRUE),
      Fragment(<<99, 32, 80, 82, 73, 77, 65, 82, 89, 32, 75, 69, 89>>, <<99>>, TRUE),
      Fragment(<<100, 32, 112, 114, 105, 109, 97, 114, 121, 32, 32, 107, 101, 121>>,
               <<100>>, FALSE),
      Fragment(PrimaryKeyStr \o <<32, 40, 97, 41>>, <<112, 114, 105, 109, 97, 114, 121>>,
               TRUE) }

\* how the declarations are wrapped: "t (..)", and "t ..)", "t (..", ") .. ("
\* and "t .." for the texts without a '(' before a ')'
Wrappers == {"between", "no_open", "no_close", "reversed", "bare"}

RECURSIVE JoinFragments(_, _)
\* the texts of the first n declarations with commas between them
JoinFragments(frags, n) ==
    IF n = 0 THEN <<>>
    ELSE IF n = 1 THEN frags[1].text
    ELSE JoinFragments(frags, n - 1) \o <<44>> \o frags[n].text

\* the declarations hold a parenthesis of their own
HasParenthesis(frags) ==
    \E i \in 1..Len(frags) : \E k \in 1..Len(frags[i].text) :
        frags[i].text[k] \in {40, 41}

SqlText(f) ==
    LET body == JoinFragments(f.frags, Len(f.frags))
    IN  CASE f.wrapper = "between" -> <<116, 32, 40>> \o body \o <<41>>
          [] f.wrapper = "no_open" -> <<116, 32>> \o body \o <<41>>
          [] f.wrapper = "no_close" -> <<116, 32, 40>> \o body
          [] f.wrapper = "reversed" -> <<41>> \o body \o <<40>>
          [] OTHER -> <<116, 32>> \o body

\* the texts without '(' before ')' are made of declarations without
\* parentheses
SqlFixtures ==
    {f \in [kind : {"sql"}, frags : SeqsUpTo(Fragments, MaxFragments),
            wrapper : Wrappers] :
        f.wrapper # "between" => ~HasParenthesis(f.frags)}

InitSchema ==
    /\ fx \in SqlFixtures
    /\ data = SqlText(fx)
    /\ file = <<>>
    /\ page_size = 0
    /\ cursor = 0
    /\ overflow_checks = TRUE
    /\ app = NoApp
    /\ call = NoCall
    /\ ret = NoRet

FromCreateSql ==
    /\ call' = [op |-> "from_create_sql"]
    /\ ret' = from_create_sql(data)
    /\ UNCHANGED <<app, data, file, page_size, cursor, overflow_checks, fx>>

NextSchema == FromCreateSql

SpecSchema == InitSchema /\ [][NextSchema]_vars

----------------------------------------------------------------------------
(* Claims on the CREATE TABLE parser *)

\* the positions of the declarations that are not blank, in order
Declared(frags) == Ascending({i \in 1..Len(frags) : frags[i].name # <<>>})

\* one column per declaration that is not blank, in source order: the first
\* word, whether the text holds "primary key", and the index IndexOf(k, i)
\* of the k-th column, taken from the i-th declaration; an error for a text
\* without '(' before ')'
ColumnsAre(by_position) ==
    call.op = "from_create_sql" =>
        IF fx.wrapper # "between" THEN ret = Err
        ELSE LET kept == Declared(fx.frags)
             IN  /\ ret.st = "Ok"
                 /\ ret.val =
                        [k \in 1..Len(kept) |->
                            [name |-> fx.frags[kept[k]].name,
                             index |-> IF by_position THEN k - 1 ELSE kept[k] - 1,
                             is_primary_key |-> fx.frags[kept[k]].pk]]

\* C18: from_create_sql returns one ColumnInfo per non-empty fragment of the
\* text between the first '(' and the last ')', in source order, the name
\* the first whitespace-delimited token, is_primary_key true exactly when
\* the lowercased fragment contains "primary key", and index the column's
\* position in the returned list; an error when there is no '(', no ')' or
\* the first '(' is not before the last ')'.
C18_ColumnsByPosition == ColumnsAre(TRUE)

\* C18, with the index as the code numbers it: the same columns, names and
\* primary-key flags and the same errors, with index the zero-based position
\* of the fragment among all fragments, the empty ones counted.
C18_ColumnsByFragment == ColumnsAre(FALSE)

\* a column declared behind an empty fragment has been returned
C18_Witness ==
    /\ call.op = "from_create_sql"
    /\ fx.wrapper = "between"
    /\ Len(fx.frags) = 3
    /\ fx.frags[1].name = <<>>
    /\ fx.frags[3].pk
    /\ ret.st = "Ok"
    /\ Len(ret.val) = 2
    /\ ret.val[2].index = 2
    /\ ret.val[2].is_primary_key

\* C19: at most one column of a schema from_create_sql returns is marked as
\* the row-id alias.
C19_AtMostOneAlias ==
    (call.op = "from_create_sql" /\ ret.st = "Ok") =>
        Cardinality({k \in 1..Len(ret.val) : ret.val[k].is_primary_key}) <= 1

\* what does hold: every column whose declaration holds "primary key" is
\* marked, as many as there are
C19_EveryAliasMarked ==
    (call.op = "from_create_sql" /\ ret.st = "Ok") =>
        Cardinality({k \in 1..Len(ret.val) : ret.val[k].is_primary_key})
            = Cardinality({i \in 1..Len(fx.frags) : fx.frags[i].pk})

----------------------------------------------------------------------------
(* Inputs of the row specification: two-page files with the schema row of
   the table t on page 1 and up to MaxStored rows on the leaf page 2; the
   CREATE TABLE text declares the row-id alias first, last or not at all,
   and the records hold fewer, as many or more values than columns are
   declared. *)

MaxStored == 2

\* CREATE TABLE t (c text, id integer primary key)
AliasLastSql ==
    <<67, 82, 69, 65, 84, 69, 32, 84, 65, 66, 76, 69, 32, 116, 32, 40, 99,
      32, 116, 101, 120, 116, 44, 32, 105, 100, 32, 105, 110, 116, 101, 103,
      101, 114, 32, 112, 114, 105, 109, 97, 114, 121, 32, 107, 101, 121, 41>>
\* CREATE TABLE t (a, b, c)
NoAliasSql ==
    <<67, 82, 69, 65, 84, 69, 32, 84, 65, 66, 76, 69, 32, 116, 32, 40, 97,
      44, 32, 98, 44, 32, 99, 41>>

\* a declaration: the text and, column by column, whether it is the alias
RowSchemas ==
    { [sql |-> CreateTableSql, alias |-> <<TRUE, FALSE>>],
      [sql |-> AliasLastSql, alias |-> <<FALSE, TRUE>>],
      [sql |-> NoAliasSql, alias |-> <<FALSE, FALSE, FALSE>>] }

\* the values a record stores
StoredRecords ==
    { <<>>,
      <<LNull>>,
      <<LNull, LText(<<97>>)>>,
      <<LInt(7), LText(<<97>>), LText(<<98>>)>>,
      <<LText(<<97>>), LNull, LInt(300)>> }

\* the lists of row ids looked up: none, one, two out of order, and one no
\* row has
RowIdLists == {<<>>, <<1>>, <<2, 1>>, <<1, 3>>}

RECURSIVE StoredCells(_, _)
\* the cells of the first n records, with the row ids 1..n
StoredCells(records, n) ==
    IF n = 0 THEN <<>>
    ELSE Append(StoredCells(records, n - 1), TableLeafCell(n, records[n], FALSE))

RowFile(f) ==
    MakePage(DbHeader(2, FALSE), LEAF_TABLE_PAGE,
             <<TableLeafCell(1, <<LText(TableStr), LText(TableName), LText(TableName),
                                  LInt(TableRootPage), LText(f.schema.sql)>>, FALSE)>>,
             0)
    \o MakePage(<<>>, LEAF_TABLE_PAGE, StoredCells(f.records, Len(f.records)), 0)

RowFixtures ==
    [kind : {"rows"}, schema : RowSchemas, records : SeqsUpTo(StoredRecords, MaxStored)]

InitRows ==
    /\ fx \in RowFixtures
    /\ file = RowFile(fx)
    /\ page_size = Database_new(file).val.page_size
    /\ cursor = position_after(0, DB_HEADER_SIZE)
    /\ overflow_checks = TRUE
    /\ data = <<>>
    /\ app = NoApp
    /\ call = NoCall
    /\ ret = NoRet

TableRows ==
    /\ call' = [op |-> "get_table_rows", table_name |-> TableName]
    /\ ret' = get_table_rows(TableName)
    /\ cursor' = NotTracked
    /\ UNCHANGED <<app, data, file, page_size, overflow_checks, fx>>

TableRowsByIds ==
    \E row_ids \in RowIdLists :
        /\ call' = [op |-> "get_table_rows_by_ids", table_name |-> TableName,
                    row_ids |-> row_ids]
        /\ ret' = get_table_rows_by_ids(TableName, SeqMap(NatToWord, row_ids))
        /\ cursor' = NotTracked
        /\ UNCHANGED <<app, data, file, page_size, overflow_checks, fx>>

NextRows == TableRows \/ TableRowsByIds

SpecRows == InitRows /\ [][NextRows]_vars

----------------------------------------------------------------------------
(* Claims on the rows *)

\* the value a stored value decodes to
DecodedValue(v) ==
    CASE v.k = "null" -> RV_Null
      [] v.k = "int" -> RV_Int(NatToWord(v.n))
      [] OTHER -> RV_Text(v.s)

\* the values of the row of row id rid: one per declared column, the row id
\* at the alias, elsewhere the stored value of that position or Null
ExpectedValues(rid) ==
    [i \in 1..Len(fx.schema.alias) |->
        IF fx.schema.alias[i] THEN RV_Int(NatToWord(rid))
        ELSE IF i <= Len(fx.records[rid]) THEN DecodedValue(fx.records[rid][i])
        ELSE RV_Null]

\* the row ids an operation is to return rows for, in order
RowIdsAsked ==
    IF call.op = "get_table_rows" THEN [i \in 1..Len(fx.records) |-> i]
    ELSE SelectSeq(call.row_ids, LAMBDA rid : rid <= Len(fx.records))

\* C20: every TableRow that get_table_rows or get_table_rows_by_ids returns
\* has as many values as the table has declared columns; the value at the
\* row-id alias column is Int(row id of the cell), and the value at every
\* other position i is the i-th stored value of the cell's record, or Null
\* when the record has fewer values.
C20_RowValues ==
    call.op \in {"get_table_rows", "get_table_rows_by_ids"} =>
        /\ ret.st = "Ok"
        /\ Len(ret.val.columns) = Len(fx.schema.alias)
        /\ Len(ret.val.rows) = Len(RowIdsAsked)
        /\ \A k \in 1..Len(ret.val.rows) :
               /\ ret.val.rows[k].row_id = NatToWord(RowIdsAsked[k])
               /\ Len(ret.val.rows[k].values) = Len(ret.val.columns)
               /\ ret.val.rows[k].values = ExpectedValues(RowIdsAsked[k])

\* a row whose record stores one value has been returned with the row id at
\* the alias in the second column and Null before it
C20_Witness ==
    /\ call.op = "get_table_rows_by_ids"
    /\ call.row_ids = <<2, 1>>
    /\ fx.schema.alias = <<FALSE, TRUE>>
    /\ Len(fx.records) = 2
    /\ fx.records[2] = <<>>
    /\ ret.st = "Ok"
    /\ Len(ret.val.rows) = 2
    /\ ret.val.rows[1].values = <<RV_Null, RV_Int(NatToWord(2))>>

\* a record that stores a value at the alias and more values than columns
\* has been scanned
C20_WitnessLong ==
    /\ call.op = "get_table_rows"
    /\ fx.schema.alias = <<TRUE, FALSE>>
    /\ Len(fx.records) = 1
    /\ Len(fx.records[1]) = 3
    /\ ret.st = "Ok"
    /\ ret.val.rows[1].values = <<RV_Int(NatToWord(1)), RV_Text(<<97>>)>>

----------------------------------------------------------------------------
(* Inputs of the WHERE specification: clauses made of a column name, an
   operator text and a right-hand side; the right-hand sides are every
   string of at most MaxRhsLen characters out of a quote, a double quote, a
   letter and a space, and three longer ones that hold an operator text. *)

MaxRhsLen == 3

RhsAlphabet == {39, 34, 120, 32}

WhereColumns == { <<99>>, <<78, 97, 109, 101>>, <<97, 32, 98>> }

OperatorTexts ==
    { <<32, 61, 32>>, <<32, 33, 61, 32>>, <<32, 60, 32>>, <<32, 60, 61, 32>>, <<32, 62, 32>>, <<32, 62, 61, 32>>, <<61>>, <<33, 61>> }

RightHandSides ==
    SeqsUpTo(RhsAlphabet, MaxRhsLen) \cup { <<121, 32, 61, 32, 122>>, <<39, 121, 32, 61, 32, 122, 39>>, <<121, 32, 33, 61, 32, 122>> }

WhereFixtures ==
    [kind : {"where"}, column : WhereColumns, operator : OperatorTexts,
     rhs : RightHandSides]

Clause(f) == f.column \o f.operator \o f.rhs

InitWhere ==
    /\ fx \in WhereFixtures
    /\ data = Clause(fx)
    /\ file = <<>>
    /\ page_size = 0
    /\ cursor = 0
    /\ overflow_checks = TRUE
    /\ app = NoApp
    /\ call = NoCall
    /\ ret = NoRet

Parse ==
    /\ call' = [op |-> "parse", where_clause |-> data]
    /\ ret' = WhereCondition_parse(data)
    /\ UNCHANGED <<app, data, file, page_size, cursor, overflow_checks, fx>>

ParseValue ==
    /\ call' = [op |-> "parse_value", value |-> fx.rhs]
    /\ ret' = parse_value(fx.rhs)
    /\ UNCHANGED <<app, data, file, page_size, cursor, overflow_checks, fx>>

NextWhere == Parse \/ ParseValue

SpecWhere == InitWhere /\ [][NextWhere]_vars

----------------------------------------------------------------------------
(* Claims on the WHERE clause *)

Quotes == {39, 34}

\* the right-hand side without its pair of quotes
Unquoted(v) ==
    IF Len(v) >= 2 /\ v[1] \in Quotes /\ v[Len(v)] = v[1]
    THEN SubSeq(v, 2, Len(v) - 1)
    ELSE v

\* a right-hand side as a clause can hold it: not empty, no space around it,
\* and more than a lone quote character
WrittenRhs(v) == v # <<>> /\ trim(v) = v /\ ~(Len(v) = 1 /\ v[1] \in Quotes)

ParsedAs(operator) ==
    ret = Ok([column_name |-> fx.column, operator |-> operator,
              value |-> Unquoted(fx.rhs)])

\* C21: WhereCondition::parse on `<col> = <val>` yields Equal and on
\* `<col> != <val>` yields NotEqual, with column_name col and value the
\* unquoted val, for every column name and right-hand side; a clause that
\* contains neither ` = ` nor ` != ` is an error.
C21_OperatorParsed ==
    call.op = "parse" /\ WrittenRhs(fx.rhs) =>
        /\ fx.operator = <<32, 61, 32>> => ParsedAs("Equal")
        /\ fx.operator = <<32, 33, 61, 32>> => ParsedAs("NotEqual")
        /\ ~contains(data, <<32, 61, 32>>) /\ ~contains(data, <<32, 33, 61, 32>>) => ret = Err

\* the same for the right-hand sides that hold no ` = `
C21_PlainRhsParsed ==
    ~contains(fx.rhs, <<32, 61, 32>>) => C21_OperatorParsed

\* `<col> != <val>` with ` = ` in val is parsed as an equality on the text
\* before that ` = `
C21_EqualFoundFirst ==
    /\ call.op = "parse"
    /\ fx.operator = <<32, 33, 61, 32>>
    /\ contains(fx.rhs, <<32, 61, 32>>)
    => /\ ret.st = "Ok"
       /\ ret.val.operator = "Equal"
       /\ ret.val.column_name # fx.column

\* C24: for every right-hand side parse_value returns a value and never
\* aborts: the text between the quotes when the string starts and ends with
\* the same quote character, the string unchanged otherwise; this includes a
\* right-hand side that is a single quote character.
C24_ValueReturned ==
    call.op = "parse_value" =>
        /\ ret.st = "Ok"
        /\ ret.val = IF trim(fx.rhs) # <<>> /\ Head(trim(fx.rhs)) \in Quotes
                        /\ trim(fx.rhs)[Len(trim(fx.rhs))] = Head(trim(fx.rhs))
                     THEN SubSeq(trim(fx.rhs), 2, Len(trim(fx.rhs)) - 1)
                     ELSE trim(fx.rhs)

\* the same for every right-hand side but the lone quote characters
C24_LongerValueReturned ==
    trim(fx.rhs) \notin {<<39>>, <<34>>} => C24_ValueReturned

\* a lone quote character aborts, in parse_value and in parse
C24_LoneQuoteAborts ==
    call # NoCall /\ trim(fx.rhs) \in {<<39>>, <<34>>} =>
        \/ ret = Panic
        \/ call.op = "parse" /\ fx.operator \notin { <<32, 61, 32>>, <<32, 33, 61, 32>> } /\ ret = Err

----------------------------------------------------------------------------
(* Inputs of the filter specification: tables of two columns, the row-id
   alias and one more, as get_table_rows returns them, with up to
   MaxFilterRows rows, and conditions as WhereCondition::parse returns
   them. *)

MaxFilterRows == 2

\* the values of the column that is not the alias
FilterValues ==
    { RV_Null, RV_Zero, RV_One, RV_Int(NatToWord(1)), RV_Int(wrapping_neg(NatToWord(1))),
      RV_Text(<<120>>), RV_Text(<<49>>), RV_Text(<<78, 85, 76, 76>>), RV_Blob(<<1>>) }

\* the column lists: (id, name) and (NAME, id)
FilterLayouts == {"alias_first", "alias_last"}

FilterColumnNames == { <<110, 97, 109, 101>>, <<78, 97, 109, 101>>, <<105, 100>>, <<122, 122>> }

FilterLiterals == { <<49>>, <<45, 49>>, <<50>>, <<78, 85, 76, 76>>, <<120>> }

FilterColumns(layout) ==
    IF layout = "alias_first"
    THEN <<[name |-> <<105, 100>>, index |-> 0, is_primary_key |-> TRUE],
           [name |-> <<110, 97, 109, 101>>, index |-> 1, is_primary_key |-> FALSE]>>
    ELSE <<[name |-> <<78, 65, 77, 69>>, index |-> 0, is_primary_key |-> FALSE],
           [name |-> <<105, 100>>, index |-> 1, is_primary_key |-> TRUE]>>

FilterRow(layout, rid, value) ==
    [row_id |-> NatToWord(rid),
     values |-> IF layout = "alias_first" THEN <<RV_Int(NatToWord(rid)), value>>
                ELSE <<value, RV_Int(NatToWord(rid))>>]

\* the TableRows of a fixture
TableData(f) ==
    [columns |-> FilterColumns(f.layout),
     rows |-> [i \in 1..Len(f.values) |-> FilterRow(f.layout, i, f.values[i])]]

FilterFixtures ==
    [kind : {"filter"}, layout : FilterLayouts,
     values : SeqsUpTo(FilterValues, MaxFilterRows),
     column_name : FilterColumnNames, value : FilterLiterals]

InitFilter ==
    /\ fx \in FilterFixtures
    /\ data = <<>>
    /\ file = <<>>
    /\ page_size = 0
    /\ cursor = 0
    /\ overflow_checks = TRUE
    /\ app = NoApp
    /\ call = NoCall
    /\ ret = NoRet

ApplyWhereFilter ==
    \E operator \in {"Equal", "NotEqual"} :
        /\ call' = [op |-> "apply_where_filter",
                    condition |-> [column_name |-> fx.column_name,
                                   operator |-> operator,
                                   value |-> fx.value]]
        /\ ret' = apply_where_filter(TableData(fx), call'.condition)
        /\ UNCHANGED <<app, data, file, page_size, cursor, overflow_checks, fx>>

NextFilter == ApplyWhereFilter

SpecFilter == InitFilter /\ [][NextFilter]_vars

----------------------------------------------------------------------------
(* Claims on the filter *)

\* the positions of the columns of the condition's name, letter case aside
NamedColumns ==
    {i \in 1..Len(TableData(fx).columns) :
        to_lowercase(TableData(fx).columns[i].name) = to_lowercase(fx.column_name)}

\* whether the display form of the row at column i is the literal
ShowsLiteral(row, i) == to_display_string(row.values[i]) = fx.value

\* the rows to keep for an operator, in their order
RowsFor(operator) ==
    SelectSeq(TableData(fx).rows,
              LAMBDA row : ShowsLiteral(row, SetMin(NamedColumns)) <=> operator = "Equal")

Opposite(condition) ==
    [condition EXCEPT !.operator = IF @ = "Equal" THEN "NotEqual" ELSE "Equal"]

\* C22: apply_where_filter returns, in their original order, exactly the
\* rows whose display form at the condition column equals the literal (=) or
\* differs from it (!=), the column being found case-insensitively; the =
\* result and the != result are disjoint and together contain every row; a
\* condition column the table does not have is an error.
C22_FilterKeeps ==
    call.op = "apply_where_filter" =>
        IF NamedColumns = {} THEN ret = Err
        ELSE /\ ret = Ok([columns |-> TableData(fx).columns,
                          rows |-> RowsFor(call.condition.operator)])
             /\ LET other == apply_where_filter(TableData(fx), Opposite(call.condition))
                IN  /\ other.st = "Ok"
                    /\ Range(ret.val.rows) \cap Range(other.val.rows) = {}
                    /\ Range(ret.val.rows) \cup Range(other.val.rows)
                           = Range(TableData(fx).rows)
                    /\ Len(ret.val.rows) + Len(other.val.rows) = Len(TableData(fx).rows)

\* a != on a column named in another letter case has kept the second of two
\* rows: the first one is a NULL, which shows as the literal
C22_Witness ==
    /\ call.op = "apply_where_filter"
    /\ call.condition.operator = "NotEqual"
    /\ fx.layout = "alias_last"
    /\ fx.column_name = <<110, 97, 109, 101>>
    /\ fx.value = <<78, 85, 76, 76>>
    /\ fx.values = <<RV_Null, RV_Text(<<120>>)>>
    /\ ret = Ok([columns |-> FilterColumns("alias_last"),
                 rows |-> <<FilterRow("alias_last", 2, RV_Text(<<120>>))>>])

\* a condition on a column the table does not have has failed
C22_WitnessNoColumn ==
    /\ call.op = "apply_where_filter"
    /\ fx.column_name = <<122, 122>>
    /\ fx.values # <<>>
    /\ ret = Err

----------------------------------------------------------------------------
(* Claims on the row count *)

\* the bytes of the root page of the table
RootPage == SubSeq(file, (TableRootPage - 1) * page_size + 1, TableRootPage * page_size)

\* the cell count in the B-tree header of the root page
RootCellCount == U16(RootPage[4], RootPage[5])

\* C23: count_table_rows(t) returns the cell count stored in the B-tree
\* header of t's root page, for a root page of either table type, and reads
\* no child page; when the root page is a leaf the count equals the number
\* of rows of the full scan of t.
C23_CountIsRootCellCount ==
    call.op = "count_table_rows" =>
        /\ ret = Ok(RootCellCount)
        /\ cursor = TableRootPage * page_size
        /\ RootPage[1] = LEAF_TABLE_PAGE =>
               /\ get_table_rows(TableName).st = "Ok"
               /\ ret.val = Len(get_table_rows(TableName).val.rows)

\* the same for the tables whose root page is a leaf
C23_LeafRootCounted ==
    RootPage[1] = LEAF_TABLE_PAGE => C23_CountIsRootCellCount

\* an interior root page is decoded as a leaf page: the call fails, or counts
\* cells that are no cells of the page
C23_InteriorRootOutcome ==
    call.op = "count_table_rows" /\ RootPage[1] = INTERIOR_TABLE_PAGE =>
        /\ ret.st \in {"Err", "Panic", "Ok"}
        /\ ret.st = "Ok" => ret.val = RootCellCount

----------------------------------------------------------------------------
(* Claims on the pages a row-id probe reads *)

\* the last row id below a node
LastRid(t) == InOrder(t)[Len(InOrder(t))].rid

\* the child of an interior node that the keys name for a row id: the first
\* one, but the last, whose key is at least the row id, or the last
KeyedChild(t, target) ==
    IF \E i \in 1..(Len(t.kids) - 1) : LastRid(t.kids[i]) >= target
    THEN SetMin({i \in 1..(Len(t.kids) - 1) : LastRid(t.kids[i]) >= target})
    ELSE Len(t.kids)

RECURSIVE KeyPath(_, _, _)
\* the pages from the node t on page `first` down to a leaf, by the keys
KeyPath(t, first, target) ==
    IF t.kind = "leaf" THEN <<first>>
    ELSE <<first>> \o KeyPath(t.kids[KeyedChild(t, target)],
                               KidRoot(t, first, KeyedChild(t, target)), target)

\* the pages the last probe read
ProbeReads == search_reads(TableRootPage, NatToWord(call.row_id))

\* the page of the leaf that holds the row id, or the last page of the table
\* when no leaf does
LastPageFor(target) ==
    IF \E i \in 1..Len(fx.rows) : fx.rows[i].rid = target
    THEN SetMin({n \in 1..NumPages :
                    /\ read_page(n).st = "Ok"
                    /\ n >= TableRootPage
                    /\ file[(n - 1) * page_size + 1] = LEAF_TABLE_PAGE
                    /\ \E c \in Range(read_page(n).val) : c.row_id = NatToWord(target)})
    ELSE TableRootPage + TreeSize(TableTree(fx)) - 1

\* C25: at an interior-table node the row-id probe descends into one child
\* only, the left child of the first interior cell whose key is >= the
\* target row id, or the rightmost child when no key is; a probe reads at
\* most one page per level of the tree.
C25_OneChildPerLevel ==
    call.op = "get_table_row_by_id" =>
        /\ ProbeReads = KeyPath(TableTree(fx), TableRootPage, call.row_id)
        /\ Len(ProbeReads) <= TreeHeight(TableTree(fx))

\* what the probe reads: the root and then every page of the table in the
\* order of the children, up to the leaf that holds the row id, and every
\* page of the table when no leaf holds it
C25_ReadsEveryPageBefore ==
    call.op = "get_table_row_by_id" =>
        ProbeReads = [i \in 1..(LastPageFor(call.row_id) - TableRootPage + 1) |->
                         TableRootPage + i - 1]

\* on a table in row-id order, a probe that reads as many pages as the path
\* by the keys has has read that path
C25_FirstPathAsClaimed ==
    /\ call.op = "get_table_row_by_id"
    /\ fx.ascending
    /\ Len(KeyPath(TableTree(fx), TableRootPage, call.row_id))
           = LastPageFor(call.row_id) - TableRootPage + 1
    => C25_OneChildPerLevel

----------------------------------------------------------------------------
(* Claims on the interior pages of the index *)

\* the bytes of the root page of the index
IndexRootData == read_page_data(IndexRootPage(fx)).val

\* the offsets of the cells of the root page of the index
IndexRootOffsets ==
    pointers_from(IndexRootData, 12,
                  get_cell_count(IndexRootData, IndexRootPage(fx)).val).val

\* the child pages the walker turns to at the root of the index
ChildrenTaken ==
    get_index_child_pages_proper(IndexRootData, IndexRootPage(fx), call.search_value)

\* the child that the keys of the root name for a value: the left child of
\* the first cell whose key is at least the value, or the rightmost child
KeyedIndexChild(t, value) ==
    IF \E i \in 1..Len(t.seps) : str_le(value, t.seps[i].val)
    THEN SetMin({i \in 1..Len(t.seps) : str_le(value, t.seps[i].val)})
    ELSE Len(t.kids)

\* an index probe whose root page is an interior page
ProbedInteriorRoot ==
    /\ call.op = "search_index"
    /\ IndexTree(fx).kind = "node"

\* C26: at an interior-index node the walker reads each cell's key as the
\* first record column of the cell's payload, which follows the cell's
\* 4-byte left-child pointer, and descends into exactly one child: the left
\* child of the first cell whose key is >= the search value, or the
\* rightmost child when no cell's key is.
C26_DescendsByKey ==
    ProbedInteriorRoot =>
        /\ \A i \in 1..Len(IndexRootOffsets) :
               /\ read_index_cell(IndexRootData, IndexRootOffsets[i]).st = "Ok"
               /\ read_index_cell(IndexRootData, IndexRootOffsets[i]).val.key
                      = IndexTree(fx).seps[i].val
        /\ ChildrenTaken
               = Ok(<<KidRoot(IndexTree(fx), IndexRootPage(fx),
                              KeyedIndexChild(IndexTree(fx), call.search_value))>>)

\* the key behind the pointer is what the claim says, had the walker read
\* the cell from there (row ids stored as integers)
C26_KeyBehindPointer ==
    ProbedInteriorRoot /\ ~fx.compact =>
        \A i \in 1..Len(IndexRootOffsets) :
            /\ read_index_cell(IndexRootData, IndexRootOffsets[i] + 4).st = "Ok"
            /\ read_index_cell(IndexRootData, IndexRootOffsets[i] + 4).val.key
                   = IndexTree(fx).seps[i].val

\* what the walker does: it reads the cell from its first byte, the child
\* pointer, reads no key, and turns to every child in order
C26_EveryChildTaken ==
    ProbedInteriorRoot =>
        /\ \A i \in 1..Len(IndexRootOffsets) :
               read_index_cell(IndexRootData, IndexRootOffsets[i]).st = "Err"
        /\ ChildrenTaken
               = Ok([i \in 1..Len(IndexTree(fx).kids) |->
                        KidRoot(IndexTree(fx), IndexRootPage(fx), i)])

----------------------------------------------------------------------------
(* Claims on the end of a traversal *)

Traversals ==
    {"collect_all_table_cells", "search_table_for_row_id", "traverse_index_for_value"}

\* the files in which a page is its own child
Cyclic == fx.kind = "pages" /\ fx.fault \in {"child_self", "index_self"}

\* C27: every B-tree traversal (full table scan, row-id probe, index probe)
\* terminates, with a recursion depth bounded by the height of the tree, on
\* every database file of finitely many pages and for every assignment of
\* child-page pointers inside it.
C27_TraversalTerminates ==
    call.op \in Traversals => ret.st # "StackOverflow"

\* the same for the files in which no page is its own child
C27_AcyclicTerminates ==
    ~Cyclic => C27_TraversalTerminates

\* a traversal that reaches a page that is its own child calls itself on
\* that page without end
C27_CycleNeverReturns ==
    /\ (call.op \in {"collect_all_table_cells", "search_table_for_row_id"}
        /\ fx.fault = "child_self" /\ call.page_number = TableRootPage)
           => ret = StackOverflow
    /\ (call.op = "traverse_index_for_value"
        /\ fx.fault = "index_self" /\ call.page_number = 4)
           => ret = StackOverflow

----------------------------------------------------------------------------
(* Inputs of the terminal-interface specifications: files of three pages
   whose schema lists some of the tables t (page 2, three rows), u (page 3,
   one row) and x (page 9, a page the file does not have, so that its rows
   cannot be loaded); the keys pressed. *)

\* the tables a schema can list
TableT == SchemaRow(TableStr, <<116>>, <<116>>, 2)
TableU == SchemaRow(TableStr, <<117>>, <<117>>, 3)
TableX == SchemaRow(TableStr, <<120>>, <<120>>, 9)

\* the schemas: no table, one table, and lists in which a table that cannot
\* be loaded comes first, in the middle and last
TableLists ==
    { <<>>, <<TableT>>, <<TableX>>, <<TableT, TableX>>, <<TableX, TableT>>,
      <<TableU, TableT>>, <<TableT, TableX, TableU>> }

TuiFile(tables) ==
    LET row(rid) == TableLeafCell(rid, <<LText(<<96 + rid>>)>>, FALSE)
    IN  MakePage(DbHeader(3, FALSE), LEAF_TABLE_PAGE, SchemaCells(tables, Len(tables)), 0)
        \o MakePage(<<>>, LEAF_TABLE_PAGE, <<row(1), row(2), row(3)>>, 0)
        \o MakePage(<<>>, LEAF_TABLE_PAGE, <<row(1)>>, 0)

TuiFixtures == [kind : {"tui"}, tables : TableLists]

----------------------------------------------------------------------------
(* The table view *)

TableKeys ==
    { Key("Up"), Key("Down"), Key("Enter"), Char(114), Char(115), Char(119),
      Char(83), Char(87), Char(71), Char(103), Char(97), Char(100), Char(122) }

\* the state of an App after a call that returned r, which aborts the
\* program unless it is Ok
AppAfter(r) == IF r.st = "Ok" THEN r.val ELSE app

\* what is kept of the outcome of a key
KeyOutcome(r) == IF r.st = "Ok" THEN Ok(<<>>) ELSE r

InitTables ==
    /\ fx \in TuiFixtures
    /\ file = TuiFile(fx.tables)
    /\ page_size = FxPageSize
    /\ cursor = NotTracked
    /\ overflow_checks = TRUE
    /\ data = <<>>
    /\ app = App_new.val
    /\ call = NoCall
    /\ ret = NoRet

TablesKey ==
    \E key \in TableKeys :
        /\ ret.st # "Panic"
        /\ call' = [op |-> "handle_tables_key", key |-> key]
        /\ ret' = KeyOutcome(handle_tables_key(app, key))
        /\ app' = AppAfter(handle_tables_key(app, key))
        /\ UNCHANGED <<data, file, page_size, cursor, overflow_checks, fx>>

NextTables == TablesKey

SpecTables == InitTables /\ [][NextTables]_vars

----------------------------------------------------------------------------
(* Claims on the table view *)

\* the selected index is within the list and selected_table is the table
\* at that index
SelectionValid ==
    /\ app.selected.some
    /\ app.selected.v < Len(app.tables)
    /\ app.selected_table = Some(app.tables[app.selected.v + 1])

\* the vertical scroll position is no greater than max(rows - 1, 0)
ScrollWithinData ==
    app.vertical_scroll <= Max(Len(app.table_data.v.rows) - 1, 0)

\* C30: after any sequence of table-navigation keys (Up, Down, Enter, r) the
\* selected list index is within the table list, selected_table is the table
\* at that index, and table_data, when present, holds the rows of
\* selected_table with the vertical scroll position no greater than
\* max(rows - 1, 0), also when loading a table's rows fails.
C30_TableShown ==
    app.tables # <<>> =>
        /\ SelectionValid
        /\ app.table_data.some =>
               /\ get_table_rows(app.selected_table.v) = Ok(app.table_data.v)
               /\ ScrollWithinData

\* the selection and the scroll position are as claimed
C30_SelectionAndScroll ==
    app.tables # <<>> =>
        /\ SelectionValid
        /\ app.table_data.some => ScrollWithinData

\* table_data holds the rows of selected_table whenever these can be loaded
C30_LoadableShown ==
    app.tables # <<>> /\ get_table_rows(app.selected_table.v).st = "Ok" =>
        app.table_data = Some(get_table_rows(app.selected_table.v).val)

\* table_data holds the rows last loaded: those of some table of the list
C30_RowsOfSomeTable ==
    app.table_data.some =>
        \E i \in 1..Len(app.tables) : get_table_rows(app.tables[i]) = Ok(app.table_data.v)

----------------------------------------------------------------------------
(* The query view: the keys of handle_query_key on an input of at most
   MaxInput characters; the characters typed are a letter, a space and a
   letter of two bytes; at most MaxRuns queries are executed. *)

MaxInput == 3

MaxRuns == 1

TypedChars == {97, 32, 233}

QueryKeys ==
    { Key("Enter"), Key("Esc"), Key("Backspace"), Key("Left"), Key("Right"),
      Key("Up"), Key("Delete") }
    \cup {Char(c) : c \in TypedChars}

\* the query view after Tab
InitQuery ==
    /\ fx \in [kind : {"tui"}, tables : {<<TableT>>}]
    /\ file = TuiFile(fx.tables)
    /\ page_size = FxPageSize
    /\ cursor = NotTracked
    /\ overflow_checks = TRUE
    /\ data = <<>>
    /\ app = [App_new.val EXCEPT !.mode = "Query"]
    /\ call = NoCall
    /\ ret = NoRet

\* a key that makes the input or the history longer than the bounds
BeyondBounds(key) ==
    \/ /\ key.code = "Char"
       /\ app.input_mode = "Editing"
       /\ Len(app.query_input) >= MaxInput
    \/ /\ key = Key("Enter")
       /\ app.input_mode = "Editing"
       /\ trim(app.query_input) # <<>>
       /\ Len(app.query_history) >= MaxRuns

QueryKey ==
    \E key \in QueryKeys :
        /\ ret.st # "Panic"
        /\ ~BeyondBounds(key)
        /\ call' = [op |-> "handle_query_key", key |-> key,
                    input_mode |-> app.input_mode, query_input |-> app.query_input]
        /\ ret' = KeyOutcome(handle_query_key(app, key))
        /\ app' = AppAfter(handle_query_key(app, key))
        /\ UNCHANGED <<data, file, page_size, cursor, overflow_checks, fx>>

NextQuery == QueryKey

SpecQuery == InitQuery /\ [][NextQuery]_vars

----------------------------------------------------------------------------
(* Claims on the query input *)

\* the cursor is a place of the input at which a character can be inserted
CursorValid ==
    /\ app.query_cursor_position \in 0..str_len(app.query_input)
    /\ chars_before(app.query_input, app.query_cursor_position) # {}

\* the last key has executed a query
Executed ==
    /\ call.op = "handle_query_key"
    /\ call.key = Key("Enter")
    /\ call.input_mode = "Editing"
    /\ trim(call.query_input) # <<>>

\* C29: after any sequence of editing keys (typing any character, Backspace,
\* Left, Right, Enter) query_cursor_position is between 0 and the length of
\* query_input and is a valid insertion point of query_input, so that no
\* editing key aborts the program; executing a query resets both the input
\* and the cursor to empty and 0.
C29_CursorValid ==
    /\ CursorValid
    /\ ret.st # "Panic"
    /\ Executed => app.query_input = <<>> /\ app.query_cursor_position = 0

\* the cursor is between 0 and the length of the input, and a query that was
\* executed has reset both
C29_CursorWithinInput ==
    /\ app.query_cursor_position \in 0..str_len(app.query_input)
    /\ Executed /\ ret.st = "Ok" =>
           app.query_input = <<>> /\ app.query_cursor_position = 0

\* an input of one-byte characters only is edited as claimed
C29_AsciiCursorValid ==
    (\A i \in 1..Len(app.query_input) : app.query_input[i] < 128) =>
        CursorValid /\ ret.st # "Panic"

\* a key aborts only where the cursor is inside a character
C29_AbortsInsideChar ==
    ret.st = "Panic" =>
        \/ call.key.code = "Char" /\ ~CursorValid
        \/ /\ call.key = Key("Backspace")
           /\ chars_before(app.query_input, app.query_cursor_position - 1) = {}

----------------------------------------------------------------------------
(* The history: queries executed one after the other, each with a text of
   its own, until MaxExecuted queries have been executed; every second one
   fails.  Blank inputs and inputs with spaces around the query are among
   the inputs. *)

MaxExecuted == 53

\* the k-th query: .schema followed by k, which lists the schema, or a count
\* of the rows of a table no schema row names, which is an error
QueryText(k) ==
    IF k % 2 = 1 THEN <<46, 115, 99, 104, 101, 109, 97>> \o u64_to_string(NatToWord(k))
    ELSE <<115, 101, 108, 101, 99, 116, 32, 99, 111, 117, 110, 116, 40, 42, 41, 32, 102, 114, 111, 109, 32, 120>> \o u64_to_string(NatToWord(k))

\* the number of queries executed so far
ExecutedSoFar == IF call = NoCall THEN 0 ELSE call.executed

\* the inputs with which execute_query is called next
NextInputs ==
    { <<>>, <<32, 32>>, QueryText(ExecutedSoFar + 1),
      <<32>> \o QueryText(ExecutedSoFar + 1) \o <<32>> }

InitHistory ==
    /\ fx \in [kind : {"tui"}, tables : {<<TableT>>}]
    /\ file = TuiFile(fx.tables)
    /\ page_size = FxPageSize
    /\ cursor = NotTracked
    /\ overflow_checks = TRUE
    /\ data = <<>>
    /\ app = [App_new.val EXCEPT !.mode = "Query", !.input_mode = "Editing"]
    /\ call = NoCall
    /\ ret = NoRet

\* execute_query on an input typed before
ExecuteQuery ==
    \E query_input \in NextInputs :
        /\ ExecutedSoFar < MaxExecuted
        /\ call' = [op |-> "execute_query", query_input |-> query_input,
                    executed |-> IF trim(query_input) = <<>> THEN ExecutedSoFar
                                 ELSE ExecutedSoFar + 1]
        /\ ret' = KeyOutcome(execute_query([app EXCEPT !.query_input = query_input,
                                                !.query_cursor_position =
                                                    str_len(query_input)]))
        /\ app' = AppAfter(execute_query([app EXCEPT !.query_input = query_input,
                                              !.query_cursor_position =
                                                  str_len(query_input)]))
        /\ UNCHANGED <<data, file, page_size, cursor, overflow_checks, fx>>

NextHistory == ExecuteQuery

SpecHistory == InitHistory /\ [][NextHistory]_vars

----------------------------------------------------------------------------
(* Claims on the history *)

\* the entry of the k-th query
EntryOf(k) == [query |-> QueryText(k), result |-> QueryResult_Text(k % 2 = 0)]

\* the number of the oldest query kept when n have been executed
OldestKept(n) == Max(n - HistoryLimit, 0) + 1

\* C28: after any sequence of executed queries, successful or failing,
\* query_history holds at most 50 entries, and they are the most recently
\* executed non-empty queries in execution order, the oldest entry being the
\* one evicted.
C28_HistoryKeepsLast ==
    /\ Len(app.query_history) <= 50
    /\ Len(app.query_history) = Min(ExecutedSoFar, 50)
    /\ \A i \in 1..Len(app.query_history) :
           app.query_history[i] = EntryOf(OldestKept(ExecutedSoFar) + i - 1)

\* more than 50 queries have been executed, a failing one last, and the
\* first ones are no longer kept
C28_Witness ==
    /\ call.op = "execute_query"
    /\ call.executed = 52
    /\ trim(call.query_input) # <<>>
    /\ Len(app.query_history) = 50
    /\ app.query_history[1].query = QueryText(3)
    /\ app.query_history[50] = [query |-> QueryText(52), result |-> QueryResult_Text(TRUE)]

\* a blank input has been submitted and has left the history as it was
C28_WitnessBlank ==
    /\ call.op = "execute_query"
    /\ call.executed = 51
    /\ call.query_input = <<32, 32>>
    /\ app.query_history[50].query = QueryText(51)

=============================================================================
